---- MODULE Spec2Model ----
(***************************************************************************)
(* PyBoyAdvance: event scheduler, interrupt controller, CPU step loop.     *)
(*                                                                         *)
(* The scheduler's heap is Python's heapq over Event objects ordered by    *)
(* Event.__lt__ (time only); the heap operations are written out as heapq  *)
(* performs them, so that the firing order of equal-time events is the one *)
(* the program produces.                                                   *)
(*                                                                         *)
(* Register values are sets of bit positions (x & y is an intersection,    *)
(* x | y a union, x & ~y a difference).                                    *)
(***************************************************************************)
EXTENDS Integers, Sequences, FiniteSets, TLC

VARIABLES
    cycles,            \* Scheduler.cycles
    events,            \* Scheduler.events (heapq list, index 0 is element 1)
    inactive_events,   \* Scheduler.inactive_events[VBLANK / HBLANK]
    ie, iflags, ime,   \* InterruptController._interrupt_enable / _flags / _master_enable
    pie, pif, pime,    \* InterruptController._pending_*
    irq_line,          \* InterruptController.irq_line
    power_down_mode,   \* InterruptController.power_down_mode
    irq_disable,       \* CPU.regs.cpsr.irq_disable
    dma,               \* DMAController.channels[c]: the fields of DMAChannel
    mem,               \* Memory: the halfwords of work RAM that are followed
    ppu,               \* PPU.display_status.reg and the two frame buffers
    regs,              \* CPU.regs: the visible registers and the banks
    vcount,            \* PPU.vcount
    key_input,         \* Keypad.key_input (bit set = key released)
    key_control,       \* Keypad.key_control.reg
    nextId,            \* history: number of Event objects created so far
    pass,              \* history: number of process_events passes that popped an event
    log,               \* history: callbacks invoked by the API-level scheduler runs
    hist,              \* history: cycle counts of the latest register writes
    last               \* history: what the most recent operation did

vars == <<cycles, events, inactive_events, ie, iflags, ime, pie, pif, pime,
          irq_line, power_down_mode, irq_disable, dma, mem, ppu, regs,
          vcount, key_input, key_control,
          nextId, pass, log, hist, last>>

----------------------------------------------------------------------------
(* Bounds of the model *)

MaxEvents == 2      \* Event objects created in an API-level scheduler run
MaxCycles == 1      \* cycle count up to which the API-level run idles
MaxDelay  == 1      \* largest delay passed to schedule() in an API-level run
MaxCancels == 1     \* Event objects cancelled in an API-level scheduler run
MemHalfwords == 8   \* halfwords of work RAM whose contents are followed
MaxHeapEvents == 4  \* Event objects created in a run that only fills the heap

----------------------------------------------------------------------------
(* scheduler.py *)

IMMEDIATELY == "IMMEDIATELY"
VBLANK      == "VBLANK"
HBLANK      == "HBLANK"

EventTrigger == {IMMEDIATELY, VBLANK, HBLANK}

NamedTriggers == {VBLANK, HBLANK}

\* Event(callback, delay) with time = 0 and cancelled = False; id and born
\* are history fields (object identity, numbered in creation order, and the
\* pass in which a callback created the event). The events the program itself
\* registers are not told apart and carry id 0.
Event(id, cb, arg, delay, born) ==
    [id |-> id, cb |-> cb, arg |-> arg, delay |-> delay, time |-> 0,
     cancelled |-> FALSE, born |-> born]

EventLtReversed(a, b) == a.time > b.time

\* Event.__lt__
EventLt(a, b) == a.time < b.time

\* heapq._siftdown(heap, startpos, pos) with newitem = heap[pos]
RECURSIVE SiftDown(_, _, _, _)
SiftDown(heap, startpos, pos, newitem) ==
    IF pos > startpos
    THEN LET parentpos == (pos - 1) \div 2
             parent    == heap[parentpos + 1]
         IN  IF EventLt(newitem, parent)
             THEN SiftDown([heap EXCEPT ![pos + 1] = parent], startpos, parentpos, newitem)
             ELSE [heap EXCEPT ![pos + 1] = newitem]
    ELSE [heap EXCEPT ![pos + 1] = newitem]

\* heapq.heappush(heap, item)
HeapPush(heap, item) == SiftDown(Append(heap, item), 0, Len(heap), item)

\* the while loop of heapq._siftup: bubble the smaller child up until a leaf
RECURSIVE SiftUpLoop(_, _, _)
SiftUpLoop(heap, pos, endpos) ==
    LET childpos == 2 * pos + 1
        rightpos == childpos + 1
    IN  IF childpos < endpos
        THEN LET c == IF rightpos < endpos
                         /\ ~EventLt(heap[childpos + 1], heap[rightpos + 1])
                      THEN rightpos ELSE childpos
             IN  SiftUpLoop([heap EXCEPT ![pos + 1] = heap[c + 1]], c, endpos)
        ELSE <<heap, pos>>

\* heapq._siftup(heap, pos)
SiftUp(heap, pos) ==
    LET newitem == heap[pos + 1]
        r       == SiftUpLoop(heap, pos, Len(heap))
    IN  SiftDown(r[1], pos, r[2], newitem)

\* heapq.heappop(heap): the popped item and the remaining heap
HeapPop(heap) ==
    LET lastelt == heap[Len(heap)]
        rest    == SubSeq(heap, 1, Len(heap) - 1)
    IN  IF rest # <<>>
        THEN [item |-> rest[1], heap |-> SiftUp([rest EXCEPT ![1] = lastelt], 0)]
        ELSE [item |-> lastelt, heap |-> rest]

\* The whole machine as one record, threaded through the operators below.
World ==
    [cycles |-> cycles, events |-> events, inactive_events |-> inactive_events,
     ie |-> ie, iflags |-> iflags, ime |-> ime,
     pie |-> pie, pif |-> pif, pime |-> pime,
     irq_line |-> irq_line, power_down_mode |-> power_down_mode,
     irq_disable |-> irq_disable, dma |-> dma, mem |-> mem, ppu |-> ppu, regs |-> regs,
     vcount |-> vcount, key_input |-> key_input, key_control |-> key_control,
     nextId |-> nextId, pass |-> pass, log |-> log,
     hist |-> hist, last |-> last]

Install(w) ==
    /\ cycles' = w.cycles
    /\ events' = w.events
    /\ inactive_events' = w.inactive_events
    /\ ie' = w.ie
    /\ iflags' = w.iflags
    /\ ime' = w.ime
    /\ pie' = w.pie
    /\ pif' = w.pif
    /\ pime' = w.pime
    /\ irq_line' = w.irq_line
    /\ power_down_mode' = w.power_down_mode
    /\ irq_disable' = w.irq_disable
    /\ dma' = w.dma
    /\ mem' = w.mem
    /\ ppu' = w.ppu
    /\ regs' = w.regs
    /\ vcount' = w.vcount
    /\ key_input' = w.key_input
    /\ key_control' = w.key_control
    /\ nextId' = w.nextId
    /\ pass' = w.pass
    /\ log' = w.log
    /\ hist' = w.hist
    /\ last' = w.last

\* heapq.heappush(self.events, event)
PushEvent(w, e) == [w EXCEPT !.events = HeapPush(w.events, e)]

\* Scheduler.schedule(callback, delay, trigger); e is Event(callback, delay)
Schedule(w, e, trigger) ==
    IF trigger = IMMEDIATELY
    THEN PushEvent(w, [e EXCEPT !.time = w.cycles + e.delay])
    ELSE [w EXCEPT !.inactive_events[trigger] = Append(@, e)]

RECURSIVE TriggerNoStamp(_, _)
TriggerNoStamp(w, trigger) ==
    LET q == w.inactive_events[trigger]
    IN  IF q = <<>>
        THEN w
        ELSE LET event == [q[Len(q)] EXCEPT !.time = q[Len(q)].delay]
                 w1    == [w EXCEPT !.inactive_events[trigger] = SubSeq(q, 1, Len(q) - 1)]
             IN  TriggerNoStamp(PushEvent(w1, event), trigger)

\* Scheduler.trigger(trigger): list.pop() takes the LAST element each time
RECURSIVE Trigger(_, _)
Trigger(w, trigger) ==
    LET q == w.inactive_events[trigger]
    IN  IF q = <<>>
        THEN w
        ELSE LET event == [q[Len(q)] EXCEPT !.time = w.cycles + q[Len(q)].delay]
                 w1    == [w EXCEPT !.inactive_events[trigger] = SubSeq(q, 1, Len(q) - 1)]
             IN  Trigger(PushEvent(w1, event), trigger)

\* Scheduler.idle(cycles)
Idle(w, n) == [w EXCEPT !.cycles = w.cycles + n]

\* Scheduler.idle_until_next_event()
IdleUntilNextEvent(w) ==
    IF w.events # <<>> /\ w.events[1].time > w.cycles
    THEN Idle(w, w.events[1].time - w.cycles)
    ELSE Idle(w, 1)

----------------------------------------------------------------------------
(* interrupt_controller.py *)

NONE == "NONE"
HALT == "HALT"
STOP == "STOP"

PowerDownMode == {NONE, HALT, STOP}

\* Interrupt.ALL = 0x3FFF
ALL == 0 .. 13

\* Interrupt.DMA_0 is bit 8, Interrupt.KEYPAD bit 12
DMA_0_BIT == 8
KEYPAD_BIT == 12

WRITE_INTERRUPT_REGISTERS_DELAY == 1
UPDATE_IRQ_LINE_DELAY == 2

\* InterruptController._schedule_write_interrupt_registers
ScheduleWriteInterruptRegisters(w) ==
    Schedule(w, Event(0, "commit", 0, WRITE_INTERRUPT_REGISTERS_DELAY, 0), IMMEDIATELY)

\* interrupt_enable setter; the history field records when the pending value changed
SetInterruptEnable(w, value) ==
    ScheduleWriteInterruptRegisters(
        [w EXCEPT !.pie = value \cap ALL,
                  !.hist.wIE = IF value \cap ALL # w.pie THEN w.cycles ELSE @])

\* interrupt_flags setter (acknowledge)
SetInterruptFlags(w, value) ==
    ScheduleWriteInterruptRegisters(
        [w EXCEPT !.pif = @ \ value,
                  !.hist.wIF = IF w.pif \cap value # {} THEN w.cycles ELSE @])

\* interrupt_master_enable setter (value & 1); the history field imeRiseAt
\* records a write of 1 over a pending and live 0 made while IE & IF is nonzero
SetInterruptMasterEnable(w, value) ==
    LET bit == IF 0 \in value THEN 1 ELSE 0
    IN  ScheduleWriteInterruptRegisters(
            [w EXCEPT !.pime = bit,
                      !.hist.wIME = IF bit # w.pime THEN w.cycles ELSE @,
                      !.hist.imeRiseAt =
                          IF w.pime = 0 /\ w.ime = 0 /\ bit = 1
                             /\ w.ie \cap w.iflags # {} /\ w.pie \cap w.pif # {}
                          THEN w.cycles
                          ELSE IF bit = 0 THEN -1 ELSE @])

\* InterruptController.signal
Signal(w, bit) ==
    ScheduleWriteInterruptRegisters([w EXCEPT !.pif = @ \cup {bit}])

WriteInterruptRegistersIfEnabled(w) ==
    LET w1 == [w EXCEPT !.ie = w.pie, !.iflags = w.pif, !.ime = w.pime,
                        !.hist.wIE = -1, !.hist.wIF = -1, !.hist.wIME = -1]
        interrupt_available == w1.ie \cap w1.iflags
        w2 == IF interrupt_available # {} /\ w1.ime = 1 /\ w1.power_down_mode = HALT
              THEN [w1 EXCEPT !.power_down_mode = NONE]
              ELSE w1
        w3 == [w2 EXCEPT !.last.commitAvail = @ \/ interrupt_available # {}]
        new_irq_line == interrupt_available # {} /\ w1.ime = 1
    IN  IF new_irq_line # w3.irq_line
        THEN Schedule(w3, Event(0, "update_irq", IF new_irq_line THEN 1 ELSE 0,
                                UPDATE_IRQ_LINE_DELAY, 0), IMMEDIATELY)
        ELSE w3

\* InterruptController._write_interrupt_registers (the commit callback).
\* History: commitEarly tells that this commit changed a live register whose
\* write is less than WRITE_INTERRUPT_REGISTERS_DELAY cycles old, commitAvail
\* that IE & IF was nonzero at a commit.
WriteInterruptRegisters(w) ==
    LET early == \/ /\ w.hist.wIE >= 0 /\ w.ie # w.pie
                    /\ w.cycles < w.hist.wIE + WRITE_INTERRUPT_REGISTERS_DELAY
                 \/ /\ w.hist.wIF >= 0 /\ w.iflags # w.pif
                    /\ w.cycles < w.hist.wIF + WRITE_INTERRUPT_REGISTERS_DELAY
                 \/ /\ w.hist.wIME >= 0 /\ w.ime # w.pime
                    /\ w.cycles < w.hist.wIME + WRITE_INTERRUPT_REGISTERS_DELAY
        w1 == [w EXCEPT !.ie = w.pie, !.iflags = w.pif, !.ime = w.pime,
                        !.hist.wIE = -1, !.hist.wIF = -1, !.hist.wIME = -1,
                        !.last.commitEarly = @ \/ early]
        interrupt_available == w1.ie \cap w1.iflags
        w2 == IF interrupt_available # {} /\ w1.power_down_mode = HALT
              THEN [w1 EXCEPT !.power_down_mode = NONE]
              ELSE w1
        w3 == [w2 EXCEPT !.last.commitAvail = @ \/ interrupt_available # {}]
        new_irq_line == interrupt_available # {} /\ w1.ime = 1
    IN  IF new_irq_line # w3.irq_line
        THEN Schedule(w3, Event(0, "update_irq", IF new_irq_line THEN 1 ELSE 0,
                                UPDATE_IRQ_LINE_DELAY, 0), IMMEDIATELY)
        ELSE w3

\* InterruptController._update_irq_line. History: roseAfterWrite is the
\* number of cycles between the IME write recorded in imeRiseAt and the
\* rise of irq_line.
UpdateIrqLine(w, new_irq_line) ==
    LET rose == ~w.irq_line /\ new_irq_line = 1
    IN  [w EXCEPT !.irq_line = (new_irq_line = 1),
                  !.last.roseAfterWrite =
                      IF rose /\ w.hist.imeRiseAt >= 0
                      THEN w.cycles - w.hist.imeRiseAt ELSE @,
                  !.hist.imeRiseAt = IF rose THEN -1 ELSE @]

----------------------------------------------------------------------------
(* memory/dma.py and the accesses of memory/memory.py it makes: the         *)
(* channels copy between work RAM addresses (no I/O register, no FIFO), and *)
(* the source adjustment written is never the prohibited value 3            *)

TRANSFER_DELAY == 2

NUM_CHANNELS == 4

\* DMAChannel.SRC_MASK, DST_MASK, COUNT_MASK
SRC_MASK == <<134217727, 268435455, 268435455, 268435455>>
DST_MASK == <<134217727, 134217727, 134217727, 268435455>>
COUNT_MASK == <<16383, 16383, 16383, 65535>>

\* DMAControlRegister: the fields of reg
DMA_DST_ADJ_BIT == 5
DMA_SRC_ADJ_BIT == 7
DMA_REPEAT_BIT == 9
DMA_SIZE_BIT == 10
DMA_START_TIMING_BIT == 12
DMA_IRQ_WHEN_DONE_BIT == 14
DMA_ENABLE_BIT == 15

\* utils.get_bits(reg, lo, lo + 1) of a register kept as the set of its 1 bits
GetBits2(reg, lo) ==
    (IF lo \in reg THEN 1 ELSE 0) + (IF lo + 1 \in reg THEN 2 ELSE 0)

\* DMAAddressAdjustment
INCREMENT == 0
DECREMENT == 1
LEAVE_UNCHANGED == 2
INCREMENT_RELOAD == 3

\* DMAStartTiming
START_IMMEDIATELY == 0
START_VBLANK == 1
START_HBLANK == 2
START_SPECIAL == 3

DmaEnable(reg) == DMA_ENABLE_BIT \in reg
DmaRepeat(reg) == DMA_REPEAT_BIT \in reg
DmaStartTiming(reg) == GetBits2(reg, DMA_START_TIMING_BIT)
DmaDstAdj(reg) == GetBits2(reg, DMA_DST_ADJ_BIT)
DmaSrcAdj(reg) == GetBits2(reg, DMA_SRC_ADJ_BIT)

\* the bytes of a unit: DMATransferSize.WORD is 4, HALFWORD is 2
TransferSizeBytes(reg) == IF DMA_SIZE_BIT \in reg THEN 4 ELSE 2

\* DMAChannel.__init__
NewChannel ==
    [reg |-> {}, pending |-> FALSE, count |-> 0, src |-> 0, dst |-> 0,
     internal_src |-> 0, internal_dst |-> 0, internal_count |-> 0]

\* DMAChannel.count / src_address / dst_address setters
SetCount(w, c, value) == [w EXCEPT !.dma[c].count = value % (COUNT_MASK[c + 1] + 1)]
SetSrcAddress(w, c, value) == [w EXCEPT !.dma[c].src = value % (SRC_MASK[c + 1] + 1)]
SetDstAddress(w, c, value) == [w EXCEPT !.dma[c].dst = value % (DST_MASK[c + 1] + 1)]

\* the activation events of channel c that an enable has scheduled, wherever
\* they wait; history: born = -1 marks those whose enable a disable followed
Disowned(q, c) ==
    [k \in 1 .. Len(q) |->
        IF q[k].cb = "activate" /\ q[k].arg = c
        THEN [q[k] EXCEPT !.cancelled = FALSE, !.born = -1] ELSE q[k]]

\* DMAChannel.control_reg setter
SetControlReg(w, c, value) ==
    LET ch == w.dma[c]
        old_enable == DmaEnable(ch.reg)
        w1 == [w EXCEPT !.dma[c].reg = value]
        e  == Event(0, "activate", c, TRANSFER_DELAY, 0)
    IN  IF ~old_enable /\ DmaEnable(value)
        THEN LET w2 == [w1 EXCEPT
                          !.dma[c].internal_src = ch.src,
                          !.dma[c].internal_dst = ch.dst,
                          !.dma[c].internal_count =
                              IF ch.count = 0 THEN COUNT_MASK[c + 1] + 1 ELSE ch.count]
             IN  CASE DmaStartTiming(value) = START_IMMEDIATELY -> Schedule(w2, e, IMMEDIATELY)
                   [] DmaStartTiming(value) = START_VBLANK -> Schedule(w2, e, VBLANK)
                   [] DmaStartTiming(value) = START_HBLANK -> Schedule(w2, e, HBLANK)
                   [] OTHER -> w2
        ELSE IF old_enable /\ ~DmaEnable(value)
        THEN [w1 EXCEPT
                 !.events = Disowned(@, c),
                 !.inactive_events = [t \in NamedTriggers |-> Disowned(@[t], c)],
                 !.dma[c].pending = FALSE]
        ELSE w1

\* Memory: work RAM (region 2, mirrored every 256 KiB); the model follows its
\* first MemHalfwords halfwords
EWRAM_REGION == 2
EWRAM_SIZE == 262144
REGION_SIZE == 16777216

Followed(address) ==
    /\ address \div REGION_SIZE = EWRAM_REGION
    /\ (address % EWRAM_SIZE) \div 2 < MemHalfwords

HalfwordAt(address) == (address % EWRAM_SIZE) \div 2

\* Memory.read_16 / read_32 at an aligned address
Read16(w, address) ==
    IF Followed(address) THEN w.mem[HalfwordAt(address)] ELSE 0

Read32(w, address) == Read16(w, address) + 65536 * Read16(w, address + 2)

\* Memory.write_16 / write_32 at an aligned address
Write16(w, address, value) ==
    IF Followed(address)
    THEN [w EXCEPT !.mem[HalfwordAt(address)] = value % 65536]
    ELSE w

Write32(w, address, value) ==
    Write16(Write16(w, address, value % 65536), address + 2, value \div 65536)

\* DMAChannel.transfer: the step of the source and of the destination address
SrcStep(reg) ==
    CASE DmaSrcAdj(reg) = INCREMENT -> TransferSizeBytes(reg)
      [] DmaSrcAdj(reg) = DECREMENT -> 0 - TransferSizeBytes(reg)
      [] OTHER -> 0

DstStep(reg) ==
    CASE DmaDstAdj(reg) = DECREMENT -> 0 - TransferSizeBytes(reg)
      [] DmaDstAdj(reg) = LEAVE_UNCHANGED -> 0
      [] OTHER -> TransferSizeBytes(reg)

CopyUnitKeepsDst(w, c, access) ==
    LET ch == w.dma[c]
        word == TransferSizeBytes(ch.reg) = 4
        value == IF word THEN Read32(w, ch.internal_src) ELSE Read16(w, ch.internal_src)
        w1 == IF word THEN Write32(w, ch.internal_dst, value)
                      ELSE Write16(w, ch.internal_dst, value)
    IN  [w1 EXCEPT !.dma[c].internal_src = @ + SrcStep(ch.reg),
                   !.last.units = Append(@, [src |-> ch.internal_src,
                                             dst |-> ch.internal_dst,
                                             value |-> value, access |-> access])]

\* DMAChannel.transfer: one pass of the for loop; history: last.units lists
\* the units copied
CopyUnit(w, c, access) ==
    LET ch == w.dma[c]
        word == TransferSizeBytes(ch.reg) = 4
        value == IF word THEN Read32(w, ch.internal_src) ELSE Read16(w, ch.internal_src)
        w1 == IF word THEN Write32(w, ch.internal_dst, value)
                      ELSE Write16(w, ch.internal_dst, value)
    IN  [w1 EXCEPT !.dma[c].internal_src = @ + SrcStep(ch.reg),
                   !.dma[c].internal_dst = @ + DstStep(ch.reg),
                   !.last.units = Append(@, [src |-> ch.internal_src,
                                             dst |-> ch.internal_dst,
                                             value |-> value, access |-> access])]

RECURSIVE CopyUnits(_, _, _, _)
CopyUnits(w, c, k, access) ==
    IF k = 0 THEN w ELSE CopyUnits(CopyUnit(w, c, access), c, k - 1, "SEQUENTIAL")

\* DMAChannel.transfer: the for loop. Units written outside work RAM change
\* nothing that is followed but the internal addresses: a transfer whose
\* first and last destination lie in one region other than work RAM is not
\* gone through unit by unit.
CopyLoop(w, c) ==
    LET ch == w.dma[c]
        k  == ch.internal_count
        first == ch.internal_dst \div REGION_SIZE
        final == (ch.internal_dst + (k - 1) * DstStep(ch.reg)) \div REGION_SIZE
    IN  IF first = final /\ first # EWRAM_REGION
        THEN [w EXCEPT !.dma[c].internal_src = @ + k * SrcStep(ch.reg),
                       !.dma[c].internal_dst = @ + k * DstStep(ch.reg)]
        ELSE CopyUnits(w, c, k, "NON_SEQUENTIAL")

\* DMAChannel.transfer; n is the number of cycles the memory accesses of the
\* units charge (at least one read and one write)
Transfer(w, c, n) ==
    IF ~w.dma[c].pending
    THEN w
    ELSE LET ch == w.dma[c]
             size == TransferSizeBytes(ch.reg)
             w0 == [Idle(w, n) EXCEPT
                       !.dma[c].internal_src = @ - (@ % size),
                       !.dma[c].internal_dst = @ - (@ % size),
                       !.last.served = Append(@, c)]
             w1 == CopyLoop(w0, c)
             w2 == IF DMA_IRQ_WHEN_DONE_BIT \in ch.reg THEN Signal(w1, DMA_0_BIT + c) ELSE w1
             w3 == [w2 EXCEPT !.dma[c].pending = FALSE]
             e  == Event(0, "activate", c, TRANSFER_DELAY, 0)
         IN  IF DmaRepeat(ch.reg)
             THEN LET w4 == IF DmaDstAdj(ch.reg) = INCREMENT_RELOAD
                            THEN [w3 EXCEPT !.dma[c].internal_dst = ch.dst] ELSE w3
                  IN  CASE DmaStartTiming(ch.reg) = START_VBLANK -> Schedule(w4, e, VBLANK)
                        [] DmaStartTiming(ch.reg) = START_HBLANK -> Schedule(w4, e, HBLANK)
                        [] OTHER -> w4
             ELSE [w3 EXCEPT !.dma[c].reg = @ \ {DMA_ENABLE_BIT}]

\* DMAChannel.activate; history: last.stale tells that an activation whose
\* enable a disable had followed set pending, last.activated lists the
\* channels made pending with the fire times of their activations
Activate(w, e) ==
    IF DmaEnable(w.dma[e.arg].reg)
    THEN [w EXCEPT !.dma[e.arg].pending = TRUE,
                   !.last.stale = @ \/ e.born = -1,
                   !.last.activated = @ \cup {<<e.arg, e.time>>}]
    ELSE w

DmaActiveChannel0(w) == w.dma[0].pending

\* DMAController.active
DmaActive(w) == \E c \in 0 .. NUM_CHANNELS - 1 : w.dma[c].pending

\* DMAController.perform_transfers
RECURSIVE TransferFrom(_, _, _)
TransferFrom(w, c, n) ==
    IF c = NUM_CHANNELS THEN w ELSE TransferFrom(Transfer(w, c, n), c + 1, n)

\* history: last.left is the set of channels pending when it returns
PerformTransfers(w, n) ==
    LET w1 == TransferFrom(w, 0, n)
    IN  [w1 EXCEPT !.last.left = {c \in 0 .. NUM_CHANNELS - 1 : w1.dma[c].pending}]


----------------------------------------------------------------------------
(* keypad.py *)

\* Key.BUTTON_A is bit 0; key_select is bits 0 to 9 of the control register
BUTTON_A == 0
KEY_SELECT_MAX_BIT == 9
KEY_IRQ_ENABLE_BIT == 14
KEY_IRQ_IF_ALL_BIT == 15

Keys == 0 .. KEY_SELECT_MAX_BIT

\* the condition with the AND mode taken for the OR mode
EvaluateIrqConditionAny(w) ==
    (Keys \ w.key_input) \cap (w.key_control \cap Keys) # {}

\* Keypad._evaluate_irq_condition
EvaluateIrqCondition(w) ==
    LET key_select == w.key_control \cap Keys
        pressed    == Keys \ w.key_input
    IN  IF KEY_IRQ_IF_ALL_BIT \in w.key_control
        THEN pressed \cap key_select = key_select
        ELSE pressed \cap key_select # {}

\* the interrupt request at the end of Keypad.press_key and release_key
KeyIrq(w) ==
    IF KEY_IRQ_ENABLE_BIT \in w.key_control /\ EvaluateIrqCondition(w)
    THEN Signal(w, KEYPAD_BIT)
    ELSE w

\* Keypad.press_key
PressKey(w, key) == KeyIrq([w EXCEPT !.key_input = @ \ {key}])

\* Keypad.release_key
ReleaseKey(w, key) == KeyIrq([w EXCEPT !.key_input = @ \cup {key}])

----------------------------------------------------------------------------
(* ppu/ppu.py: the two scanline callbacks. Of the rendering only the row of  *)
(* the back buffer that _merge_layers writes is followed. The four          *)
(* constants are those of ppu/constants.py.                                 *)

CYCLES_HDRAW == 960
CYCLES_HBLANK == 272
DISPLAY_HEIGHT == 160
DISPLAY_FULL_HEIGHT == 228

\* Interrupt.VBLANK, HBLANK, VCOUNT as bit numbers
VBLANK_BIT == 0
HBLANK_BIT == 1
VCOUNT_BIT == 2

\* DisplayStatusRegister: the fields of reg
VBLANK_STATUS_BIT == 0
HBLANK_STATUS_BIT == 1
VCOUNT_TRIGGER_STATUS_BIT == 2
VBLANK_IRQ_BIT == 3
HBLANK_IRQ_BIT == 4
VCOUNT_IRQ_BIT == 5
VCOUNT_TRIGGER_VALUE_BIT == 8

\* utils.set_bit on a register kept as the set of its 1 bits
SetBit(reg, bit, value) == IF value THEN reg \cup {bit} ELSE reg \ {bit}

\* DisplayStatusRegister.vcount_trigger_value: get_bits(reg, 8, 15)
RECURSIVE BitsValue(_, _, _)
BitsValue(reg, lo, hi) ==
    IF lo > hi THEN 0
    ELSE (IF lo \in reg THEN 1 ELSE 0) + 2 * BitsValue(reg, lo + 1, hi)

\* PPU.__init__: the display status and the two frame buffers; a buffer is
\* followed by the number of rows written to it
NewPpu ==
    [display_status |-> {},
     front_buffer |-> 0, back_buffer |-> 1,
     front_buffer_ptr |-> 0, back_buffer_ptr |-> 1,
     written |-> [b \in {0, 1} |-> 0],
     rows |-> {}]

\* PPU._merge_layers: the scanline is copied to row vcount of the back
\* buffer; history: rows is the set of rows written since the last swap
MergeLayers(w) ==
    [w EXCEPT !.ppu.written[w.ppu.back_buffer] = @ + 1,
              !.ppu.rows = @ \cup {w.vcount}]

\* an hblank_start that registers itself again instead of hblank_end
HblankStartAgain(w) ==
    LET w0 == [w EXCEPT !.ppu.display_status = SetBit(@, HBLANK_STATUS_BIT, TRUE),
                        !.hist.hblanks = @ + 1,
                        !.hist.hblankAt = w.cycles,
                        !.last.gap = IF w.hist.hblankAt = -1 THEN -1
                                     ELSE w.cycles - w.hist.hblankAt,
                        !.last.hblankLine = w.vcount,
                        !.last.calls = Append(@, "hblank_start")]
        w1 == IF w0.vcount < DISPLAY_HEIGHT
              THEN Trigger([MergeLayers(w0) EXCEPT !.last.hblankTrigger = TRUE,
                                                   !.hist.hblankTriggerAt = w.cycles],
                           HBLANK)
              ELSE w0
        w2 == IF HBLANK_IRQ_BIT \in w1.ppu.display_status
              THEN Signal([w1 EXCEPT !.last.hblankIrq = TRUE], HBLANK_BIT) ELSE w1
    IN  Schedule(w2, Event(0, "hblank_start", 0, CYCLES_HBLANK, 0), IMMEDIATELY)

\* PPU.hblank_start; history: hist.hblanks counts the calls, last.gap is the
\* number of cycles since the call before, last.calls lists the callbacks
\* of the PPU that the operation has run
HblankStart(w) ==
    LET w0 == [w EXCEPT !.ppu.display_status = SetBit(@, HBLANK_STATUS_BIT, TRUE),
                        !.hist.hblanks = @ + 1,
                        !.hist.hblankAt = w.cycles,
                        !.last.gap = IF w.hist.hblankAt = -1 THEN -1
                                     ELSE w.cycles - w.hist.hblankAt,
                        !.last.hblankLine = w.vcount,
                        !.last.calls = Append(@, "hblank_start")]
        w1 == IF w0.vcount < DISPLAY_HEIGHT
              THEN Trigger([MergeLayers(w0) EXCEPT !.last.hblankTrigger = TRUE,
                                                   !.hist.hblankTriggerAt = w.cycles],
                           HBLANK)
              ELSE w0
        w2 == IF HBLANK_IRQ_BIT \in w1.ppu.display_status
              THEN Signal([w1 EXCEPT !.last.hblankIrq = TRUE], HBLANK_BIT) ELSE w1
    IN  Schedule(w2, Event(0, "hblank_end", 0, CYCLES_HBLANK, 0), IMMEDIATELY)

\* PPU.hblank_end; history: hist.swaps counts the buffer swaps; when vcount
\* wraps, last.frameHblanks and last.frameSwaps are the calls of
\* hblank_start and the swaps since the wrap before
HblankEnd(w) ==
    LET v  == IF w.vcount + 1 >= DISPLAY_FULL_HEIGHT THEN 0 ELSE w.vcount + 1
        st == SetBit(SetBit(SetBit(w.ppu.display_status,
                  HBLANK_STATUS_BIT, FALSE),
                  VBLANK_STATUS_BIT, v >= DISPLAY_HEIGHT),
                  VCOUNT_TRIGGER_STATUS_BIT,
                  v = BitsValue(w.ppu.display_status, VCOUNT_TRIGGER_VALUE_BIT, 15))
        w0 == IF v = 0
              THEN [w EXCEPT !.last.frameHblanks = w.hist.hblanks,
                             !.last.frameSwaps = w.hist.swaps,
                             !.hist.hblanks = 0, !.hist.swaps = 0]
              ELSE w
        w1 == [w0 EXCEPT !.vcount = v, !.ppu.display_status = st,
                         !.last.calls = Append(@, "hblank_end")]
        w2 == IF v = DISPLAY_HEIGHT
              THEN LET w3 == [w1 EXCEPT
                                !.ppu.front_buffer = w1.ppu.back_buffer,
                                !.ppu.back_buffer = w1.ppu.front_buffer,
                                !.ppu.front_buffer_ptr = w1.ppu.back_buffer_ptr,
                                !.ppu.back_buffer_ptr = w1.ppu.front_buffer_ptr,
                                !.ppu.rows = {},
                                !.hist.swaps = @ + 1,
                                !.last.swapRows = w1.ppu.rows]
                       w4 == IF VBLANK_IRQ_BIT \in st THEN Signal(w3, VBLANK_BIT) ELSE w3
                   IN  Trigger(w4, VBLANK)
              ELSE w1
        w5 == IF VCOUNT_IRQ_BIT \in st /\ VCOUNT_TRIGGER_STATUS_BIT \in st
              THEN Signal(w2, VCOUNT_BIT) ELSE w2
    IN  Schedule(w5, Event(0, "hblank_start", 0, CYCLES_HDRAW, 0), IMMEDIATELY)

----------------------------------------------------------------------------
(* scheduler.py: process_events and the callbacks it invokes *)

\* history: event e has been popped; its callback is invoked iff not cancelled
Logged(w, e) ==
    IF e.id = 0
    THEN [w EXCEPT !.last.firedAt = @ \cup {w.cycles}]
    ELSE [w EXCEPT !.last.firedAt = @ \cup {w.cycles},
                   !.log = Append(@, [id |-> e.id, time |-> e.time,
                                      delay |-> e.delay, at |-> w.cycles,
                                      pass |-> w.pass, born |-> e.born,
                                      cancelled |-> e.cancelled,
                                      invoked |-> FALSE])]

\* history: the callback of the event popped last is running
Invoked(w) ==
    [w EXCEPT !.log = IF @ = <<>> THEN @ ELSE [@ EXCEPT ![Len(@)].invoked = TRUE]]

\* event.callback(): "nop" and "spawn" are the callbacks of the API-level
\* runs ("spawn" calls schedule(nop, arg) itself, arg being its own delay),
\* the others are the bound methods the program registers.
RunCallback(w, e) ==
    CASE e.cb = "nop"          -> Invoked(w)
      [] e.cb = "spawn"        -> Schedule(Invoked(w),
                                           Event(e.id + 1, "nop", 0, e.arg, w.pass),
                                           IMMEDIATELY)
      [] e.cb = "commit"       -> WriteInterruptRegisters(w)
      [] e.cb = "update_irq"   -> UpdateIrqLine(w, e.arg)
      [] e.cb = "activate"     -> Activate(w, e)
      [] e.cb = "hblank_start" -> HblankStart(w)
      [] e.cb = "hblank_end"   -> HblankEnd(w)

RECURSIVE ProcessLoopNoCancelCheck(_)
ProcessLoopNoCancelCheck(w) ==
    IF w.events # <<>> /\ w.cycles >= w.events[1].time
    THEN LET p  == HeapPop(w.events)
             w1 == Logged([w EXCEPT !.events = p.heap], p.item)
         IN  ProcessLoopNoCancelCheck(RunCallback(w1, p.item))
    ELSE w

RECURSIVE ProcessLoopDeferred(_)
ProcessLoopDeferred(w) ==
    IF w.events # <<>> /\ w.cycles >= w.events[1].time /\ w.events[1].born # w.pass
    THEN LET p  == HeapPop(w.events)
             w1 == Logged([w EXCEPT !.events = p.heap], p.item)
         IN  ProcessLoopDeferred(IF ~p.item.cancelled THEN RunCallback(w1, p.item) ELSE w1)
    ELSE w

\* Scheduler.process_events: the while loop
RECURSIVE ProcessLoop(_)
ProcessLoop(w) ==
    IF w.events # <<>> /\ w.cycles >= w.events[1].time
    THEN LET p  == HeapPop(w.events)
             w1 == Logged([w EXCEPT !.events = p.heap], p.item)
         IN  ProcessLoop(IF ~p.item.cancelled THEN RunCallback(w1, p.item) ELSE w1)
    ELSE w

\* Scheduler.process_events
ProcessEvents(w) ==
    IF w.events # <<>> /\ w.cycles >= w.events[1].time
    THEN ProcessLoop([w EXCEPT !.pass = @ + 1])
    ELSE w

----------------------------------------------------------------------------
(* The CPU's registers (cpu/registers.py): the visible SP, LR, SPSR and     *)
(* R8..R12, the mode field of the CPSR, and the banks behind them.          *)

\* CPUMode
USER == 16
FIQ == 17
IRQ == 18
SWI == 19
ABORT == 23
UNDEFINED == 27
SYSTEM == 31

Modes == {USER, FIQ, IRQ, SWI, ABORT, UNDEFINED, SYSTEM}

\* BankIndex
BANK_SYSTEM_USER == 0
BANK_FIQ == 1
BANK_IRQ == 2
BANK_SWI == 3
BANK_ABORT == 4
BANK_UNDEFINED == 5

Banks == {BANK_SYSTEM_USER, BANK_FIQ, BANK_IRQ, BANK_SWI, BANK_ABORT,
          BANK_UNDEFINED}

\* Registers.BANKED_GPR_RANGE_START, BANKED_GPR_RANGE_END
BANKED_GPR_RANGE_START == 8
BANKED_GPR_RANGE_END == 12
BANKED_GPR_RANGE == BANKED_GPR_RANGE_START .. BANKED_GPR_RANGE_END

\* BankIndex.from_cpu_mode
FromCpuMode(mode) ==
    CASE mode = SYSTEM \/ mode = USER -> BANK_SYSTEM_USER
      [] mode = FIQ -> BANK_FIQ
      [] mode = IRQ -> BANK_IRQ
      [] mode = SWI -> BANK_SWI
      [] mode = ABORT -> BANK_ABORT
      [] mode = UNDEFINED -> BANK_UNDEFINED

\* Registers.__init__ followed by CPU.__init__, which sets the mode fields of
\* the CPSR and of the SPSR to SYSTEM and fills the pipeline with 0xF0000000.
\* A register is kept as the set of its 1 bits; mode is cpsr.mode and flags
\* the other bits of cpsr.reg, spsr is spsr.reg, low is R0..R7 and gpr the
\* visible R8..R12; prefetch_access_type is the attribute that
\* cpu/thumb/bdt.py assigns
NewRegisters ==
    [mode |-> SYSTEM, sp |-> {}, lr |-> {}, spsr |-> 0 .. 4,
     gpr |-> [i \in BANKED_GPR_RANGE |-> {}],
     banked_old_gpr |-> [i \in BANKED_GPR_RANGE |-> {}],
     banked_fiq_gpr |-> [i \in BANKED_GPR_RANGE |-> {}],
     banked_sp |-> [b \in Banks |-> {}],
     banked_lr |-> [b \in Banks |-> {}],
     banked_spsr |-> [b \in Banks |-> {}],
     low |-> [i \in 0 .. 7 |-> {}], pc |-> {}, flags |-> {},
     pipeline |-> <<{28, 29, 30, 31}, {28, 29, 30, 31}>>,
     next_fetch_access |-> "NON_SEQUENTIAL",
     prefetch_access_type |-> "unset"]

\* switch_mode without the save of SP, LR and SPSR in the bank of the old mode
SwitchModeForgets(r, new_mode) ==
    IF new_mode = r.mode THEN r
    ELSE
        LET new_bank_index == FromCpuMode(new_mode)
            r1 == [r EXCEPT !.mode = new_mode,
                            !.sp = r.banked_sp[new_bank_index],
                            !.lr = r.banked_lr[new_bank_index],
                            !.spsr = r.banked_spsr[new_bank_index]]
        IN  IF new_mode = FIQ
            THEN [r1 EXCEPT !.banked_old_gpr = r1.gpr, !.gpr = r1.banked_fiq_gpr]
            ELSE IF r.mode = FIQ
            THEN [r1 EXCEPT !.banked_fiq_gpr = r1.gpr, !.gpr = r1.banked_old_gpr]
            ELSE r1

\* Registers.switch_mode; the banked R8..R12 lists are indexed here by the
\* register number, in the source by the register number less 8
SwitchMode(r, new_mode) ==
    IF new_mode = r.mode THEN r
    ELSE
        LET old_mode == r.mode
            old_bank_index == FromCpuMode(old_mode)
            new_bank_index == FromCpuMode(new_mode)
            saved == [r EXCEPT !.mode = new_mode,
                               !.banked_sp[old_bank_index] = r.sp,
                               !.banked_lr[old_bank_index] = r.lr,
                               !.banked_spsr[old_bank_index] = r.spsr]
            r1 == [saved EXCEPT !.sp = saved.banked_sp[new_bank_index],
                                !.lr = saved.banked_lr[new_bank_index],
                                !.spsr = saved.banked_spsr[new_bank_index]]
        IN  IF new_mode = FIQ
            THEN [r1 EXCEPT !.banked_old_gpr = r1.gpr, !.gpr = r1.banked_fiq_gpr]
            ELSE IF old_mode = FIQ
            THEN [r1 EXCEPT !.banked_fiq_gpr = r1.gpr, !.gpr = r1.banked_old_gpr]
            ELSE r1

----------------------------------------------------------------------------
(* The state after construction *)

\* history: the record of the latest operation, before it has done anything
NoLast(op, arg, n) ==
    [op |-> op, arg |-> arg, n |-> n,
     irq |-> FALSE, line |-> FALSE, instr |-> "none",
     commitEarly |-> FALSE, commitAvail |-> FALSE, roseAfterWrite |-> -1,
     units |-> <<>>, served |-> <<>>, stale |-> FALSE, activated |-> {},
     gap |-> -1, hblankLine |-> -1, hblankTrigger |-> FALSE, hblankIrq |-> FALSE,
     swapRows |-> {}, left |-> {}, firedAt |-> {},
     frameHblanks |-> -1, frameSwaps |-> -1,
     flushed |-> FALSE, skipped |-> FALSE, vector |-> -1, before |-> NewRegisters,
     executing |-> {}, started |-> {}, decoded |-> <<>>, alu |-> <<>>,
     moved |-> <<>>, held |-> {}, pending |-> {}, read |-> <<>>, pixel |-> <<>>,
     calls |-> <<>>, acked |-> {}]

\* Scheduler.__init__, InterruptController.__init__, DMAChannel.__init__,
\* Keypad.__init__, CPU.__init__ (CPSR = 0 but for the mode) and PPU.vcount
Constructed ==
    [cycles |-> 0, events |-> <<>>,
     inactive_events |-> [t \in NamedTriggers |-> <<>>],
     ie |-> {}, iflags |-> {}, ime |-> 0,
     pie |-> {}, pif |-> {}, pime |-> 0,
     irq_line |-> FALSE, power_down_mode |-> NONE,
     irq_disable |-> FALSE,
     dma |-> [c \in 0 .. NUM_CHANNELS - 1 |-> NewChannel],
     mem |-> [a \in 0 .. MemHalfwords - 1 |-> 0],
     ppu |-> NewPpu,
     regs |-> NewRegisters,
     vcount |-> 0, key_input |-> Keys, key_control |-> {},
     nextId |-> 0, pass |-> 0, log |-> <<>>,
     hist |-> [wIE |-> -1, wIF |-> -1, wIME |-> -1, imeRiseAt |-> -1,
               keys |-> 0, irqTaken |-> FALSE,
               hblanks |-> 0, hblankAt |-> -1, hblankTriggerAt |-> -1, swaps |-> 0, stores |-> 0, runs |-> 0,
               switches |-> <<>>, instrs |-> 0],
     last |-> NoLast("init", "", 0)]

Is(w) ==
    /\ cycles = w.cycles
    /\ events = w.events
    /\ inactive_events = w.inactive_events
    /\ ie = w.ie
    /\ iflags = w.iflags
    /\ ime = w.ime
    /\ pie = w.pie
    /\ pif = w.pif
    /\ pime = w.pime
    /\ irq_line = w.irq_line
    /\ power_down_mode = w.power_down_mode
    /\ irq_disable = w.irq_disable
    /\ dma = w.dma
    /\ mem = w.mem
    /\ ppu = w.ppu
    /\ regs = w.regs
    /\ vcount = w.vcount
    /\ key_input = w.key_input
    /\ key_control = w.key_control
    /\ nextId = w.nextId
    /\ pass = w.pass
    /\ log = w.log
    /\ hist = w.hist
    /\ last = w.last

\* a Scheduler on its own, with the objects around it as constructed
Init == Is(Constructed)

----------------------------------------------------------------------------
(* The scheduler driven through its API by an arbitrary client: any         *)
(* sequence of schedule, trigger, idle, idle_until_next_event and           *)
(* process_events calls, and of assignments to Event.cancelled.             *)

Began(op, arg, n) == [World EXCEPT !.last = NoLast(op, arg, n)]

ApiSchedule(cb, arg, delay, trigger) ==
    LET k == IF cb = "spawn" THEN 2 ELSE 1
    IN  /\ nextId + k <= MaxEvents
        /\ Install(Schedule([Began("api", "", 0) EXCEPT !.nextId = @ + k],
                            Event(nextId + 1, cb, arg, delay, 0), trigger))

ApiTrigger(trigger) ==
    Install(Trigger(Began("trigger", trigger, Len(inactive_events[trigger])), trigger))

ApiIdle(n) ==
    /\ cycles + n <= MaxCycles
    /\ Install(Idle(Began("api", "", 0), n))

ApiIdleUntilNextEvent ==
    /\ cycles < MaxCycles
    /\ Install(IdleUntilNextEvent(Began("api", "", 0)))

ApiProcessEvents ==
    Install(ProcessEvents(Began("process_events", "", 0)))

\* event.cancelled = True on an event that has not been popped yet
CancelIn(q, id) ==
    [k \in 1 .. Len(q) |-> IF q[k].id = id THEN [q[k] EXCEPT !.cancelled = TRUE] ELSE q[k]]

Pending(id) ==
    \/ \E k \in 1 .. Len(events) : events[k].id = id
    \/ \E t \in NamedTriggers : \E k \in 1 .. Len(inactive_events[t]) :
           inactive_events[t][k].id = id

Cancelled ==
    {events[k].id : k \in {j \in 1 .. Len(events) : events[j].cancelled}}
    \cup UNION {{inactive_events[t][k].id :
                    k \in {j \in 1 .. Len(inactive_events[t]) : inactive_events[t][j].cancelled}} :
                t \in NamedTriggers}
    \cup {log[k].id : k \in {j \in 1 .. Len(log) : ~log[j].invoked}}

ApiCancel(id) ==
    /\ Pending(id)
    /\ id \notin Cancelled
    /\ Cardinality(Cancelled) < MaxCancels
    /\ Install([Began("api", "", 0) EXCEPT
                    !.events = CancelIn(@, id),
                    !.inactive_events = [t \in NamedTriggers |-> CancelIn(@[t], id)]])

SchedNext ==
    \/ \E delay \in 0 .. MaxDelay, trigger \in EventTrigger :
           ApiSchedule("nop", 0, delay, trigger)
    \/ \E delay \in 0 .. MaxDelay : ApiSchedule("spawn", delay, delay, IMMEDIATELY)
    \/ \E trigger \in NamedTriggers : ApiTrigger(trigger)
    \/ ApiIdle(1)
    \/ ApiIdleUntilNextEvent
    \/ ApiProcessEvents
    \/ \E id \in 1 .. MaxEvents : ApiCancel(id)

SchedSpec == Init /\ [][SchedNext]_vars

----------------------------------------------------------------------------
(* The scheduler used the way InterruptController uses it: only             *)
(* schedule(callback, delay) with the default trigger, idle and             *)
(* process_events.                                                          *)

FifoSchedule(delay) ==
    /\ nextId < MaxHeapEvents
    /\ Install(Schedule([Began("api", "", 0) EXCEPT !.nextId = @ + 1],
                        Event(nextId + 1, "nop", 0, delay, 0), IMMEDIATELY))

FifoNext ==
    \/ \E delay \in 0 .. MaxDelay : FifoSchedule(delay)
    \/ ApiIdle(1)
    \/ ApiProcessEvents

FifoSpec == Init /\ [][FifoNext]_vars

----------------------------------------------------------------------------
(* Scheduler claims *)

Pops == 1 .. Len(log)

Fired == {i \in Pops : log[i].invoked}

\* C1: of two events put into the heap, the one scheduled first (smaller id)
\* with a fire time not later than the other's has its callback invoked
\* first; equal fire times fire in the order of insertion.
C1_FifoTies ==
    \A i, j \in Fired :
        (log[i].id < log[j].id /\ log[i].time <= log[j].time) => i < j

\* C2: no callback is invoked before its fire time, the fire times of
\* successively invoked callbacks never decrease, and the cycle counter
\* never decreases.
C2_InOrder ==
    /\ \A i \in Fired : log[i].at >= log[i].time
    /\ \A i, j \in Fired : i < j => log[i].time <= log[j].time

C2_NoEarlyMonotone == []C2_InOrder /\ [][cycles' >= cycles]_vars

C2_Witness ==
    \E i, j \in Fired : i < j /\ log[i].time < log[j].time /\ log[i].at < log[j].at

\* C8: an event cancelled before it is popped is never invoked, every event
\* popped uncancelled is invoked, a finished pass leaves no due event behind
\* and every event created is still queued, in the heap, or was popped.
Accounted(id) ==
    \/ Pending(id)
    \/ \E i \in Pops : log[i].id = id
    \/ \E k \in 1 .. Len(events) : events[k].cb = "spawn" /\ events[k].id = id - 1
    \/ \E i \in Pops : log[i].id = id - 1 /\ ~log[i].invoked

C9_NextPass ==
    \A i \in Pops : (log[i].born # 0 /\ log[i].delay = 0) => log[i].pass # log[i].born

\* C9 (amended): an event a callback schedules with delay 0 is invoked in
\* the same process_events pass, after the callback that scheduled it; it
\* never outlives the pass.
C9_SamePass ==
    /\ \A k \in 1 .. Len(events) : ~(events[k].born # 0 /\ events[k].delay = 0)
    /\ \A i \in Pops :
           (log[i].born # 0 /\ log[i].delay = 0) =>
               /\ log[i].invoked
               /\ log[i].pass = log[i].born
               /\ \E j \in Fired : j < i /\ log[j].id = log[i].id - 1
                                   /\ log[j].pass = log[i].pass

C9_Witness ==
    \E i \in Fired : log[i].born # 0 /\ log[i].delay = 0 /\ log[i].at > 0

\* C10: an event scheduled on HBLANK or VBLANK is not popped while it waits
\* in its queue; trigger(name) empties that queue, stamps each drained event
\* with the cycle count plus its delay, puts it into the heap and changes
\* neither the other queue nor the events already in the heap.
Range(q) == {q[k] : k \in 1 .. Len(q)}

C10_Waiting ==
    \A t \in NamedTriggers : \A e \in Range(inactive_events[t]) :
        /\ e.time = 0
        /\ \A i \in Pops : log[i].id # e.id

C10_TriggerStep ==
    last'.op = "trigger" =>
        LET t == last'.arg
        IN  /\ inactive_events'[t] = <<>>
            /\ \A o \in NamedTriggers \ {t} : inactive_events'[o] = inactive_events[o]
            /\ cycles' = cycles
            /\ log' = log
            /\ Len(events') = Len(events) + Len(inactive_events[t])
            /\ Range(events') =
                   Range(events) \cup
                   {[e EXCEPT !.time = cycles + e.delay] : e \in Range(inactive_events[t])}

C10_Trigger == []C10_Waiting /\ [][C10_TriggerStep]_vars

C10_Witness ==
    /\ last.op = "trigger" /\ last.n >= 1 /\ cycles > 0
    /\ \E k \in 1 .. Len(events) : events[k].time = cycles + events[k].delay
    /\ \E o \in NamedTriggers \ {last.arg} : inactive_events[o] # <<>>

----------------------------------------------------------------------------
(* cpu/cpu.py, memory/io.py, gba.py: the machine PyBoyAdvance() builds and   *)
(* PyBoyAdvance.step drives, with the keypad pressed between steps           *)

CoreMaxCycles == 14  \* instructions are executed while cycles is below this
MaxFetch == 1        \* largest access time of an instruction fetch
MaxDmaCycles == 3    \* largest number of cycles one DMA transfer charges
MaxKeys == 3         \* calls of press_key / release_key
MaxLines == 1        \* scanlines a halted CPU is followed through

\* access time of the BIOS and I/O regions (Memory.access_time_16 / _32)
ACCESS_TIME == 1

\* CPU.flush_pipeline at an exception vector: two fetches from the BIOS
FlushPipeline(w) == Idle(Idle(w, ACCESS_TIME), ACCESS_TIME)

InterruptKeepsIrqEnabled(w) ==
    FlushPipeline([w EXCEPT !.last.irq = TRUE, !.hist.irqTaken = TRUE])

\* CPU.interrupt(ExceptionVector.IRQ)
Interrupt(w) ==
    FlushPipeline([w EXCEPT !.irq_disable = TRUE,
                            !.last.irq = TRUE, !.hist.irqTaken = TRUE])

\* CPU.interrupt(ExceptionVector.RESET)
Reset(w) == FlushPipeline([w EXCEPT !.irq_disable = TRUE])

\* IO.write_16 at REG_DMAxDAD_L: dst_address &= 0xFFFF0000, then |= value
SetDstLow(w, c, value) ==
    LET high == (w.dma[c].dst \div 65536) * 65536
    IN  SetDstAddress(SetDstAddress(w, c, high), c, high + value)

\* IO.write_16
IoWrite16(w, address, value) ==
    CASE address = "REG_IE"        -> SetInterruptEnable(w, value)
      [] address = "REG_IF"        -> SetInterruptFlags(w, value)
      [] address = "REG_IME"       -> SetInterruptMasterEnable(w, value)
      [] address = "REG_HALTCNT"   ->
             [w EXCEPT !.power_down_mode = IF 15 \in value THEN STOP ELSE HALT]
      [] address = "REG_DMA0CNT_H" -> SetControlReg(w, 0, value)
      [] address = "REG_DMA3CNT_H" -> SetControlReg(w, 3, value)
      [] address = "REG_DMA0CNT_L" -> SetCount(w, 0, BitsValue(value, 0, 15))
      [] address = "REG_DMA3CNT_L" -> SetCount(w, 3, BitsValue(value, 0, 15))
      [] address = "REG_DMA0DAD_L" -> SetDstLow(w, 0, BitsValue(value, 0, 15))
      [] address = "REG_DMA3DAD_L" -> SetDstLow(w, 3, BitsValue(value, 0, 15))
      [] address = "REG_DISPSTAT"  -> [w EXCEPT !.ppu.display_status = value]
      [] address = "REG_VCOUNT"    -> [w EXCEPT !.vcount = BitsValue(value, 0, 15)]
      [] address = "REG_KEYCNT"    -> [w EXCEPT !.key_control = value]

\* IO.write_8 at REG_IF or REG_IF + 1: the halfword that read_16 returns,
\* the live IF, with one byte replaced by the value is written with
\* write_16; history: last.pending is the pending IF before the write,
\* last.acked the flags that the write takes from it
IoWrite8(w, address, value) ==
    LET old_value == w.iflags
        new_value == IF address = "REG_IF+1"
                     THEN (old_value \cap (0 .. 7)) \cup {b + 8 : b \in value}
                     ELSE (old_value \cap (8 .. 15)) \cup value
        w1 == IoWrite16(w, "REG_IF", new_value)
    IN  [w1 EXCEPT !.last.pending = w.pif, !.last.acked = w.pif \ w1.pif]

\* The instructions: STRH to an I/O register (fetch, then the access, then
\* the write), an instruction that writes CPSR (MSR, or a return that
\* restores SPSR), and any other instruction.
StoreValues ==
    [REG_IE        |-> {{}, {KEYPAD_BIT}},
     REG_IF        |-> {{KEYPAD_BIT}},
     REG_IME       |-> {{}, {0}},
     REG_HALTCNT   |-> {{}, {15}},
     REG_DMA0CNT_H |-> {{}, {DMA_ENABLE_BIT}},
     REG_KEYCNT    |-> {{BUTTON_A, KEY_IRQ_ENABLE_BIT}}]

Instructions ==
    UNION {{[kind |-> "strh", address |-> a, value |-> v, flag |-> FALSE, fetch |-> f] :
               v \in StoreValues[a], f \in 1 .. MaxFetch} : a \in DOMAIN StoreValues}
    \cup {[kind |-> "cpsr", address |-> "", value |-> {}, flag |-> b, fetch |-> f] :
             b \in BOOLEAN, f \in 1 .. MaxFetch}
    \cup {[kind |-> "other", address |-> "", value |-> {}, flag |-> FALSE, fetch |-> f] :
             f \in 1 .. MaxFetch}

----------------------------------------------------------------------------
(* The CPU seen from its registers (cpu/cpu.py, cpu/arm, cpu/thumb): R0 to  *)
(* R15, the CPSR and the two-stage pipeline. A 32-bit word is kept as the   *)
(* set of its 1 bits, a fetched instruction as the aligned address it was   *)
(* read from, and an executed instruction as the fields its handler takes   *)
(* from the instruction word. FlushPipeline, Interrupt and Reset above are  *)
(* the same methods seen from the cycle counter alone.                      *)

\* the word whose upper and lower halfwords are the given numbers
Word(hi, lo) ==
    {b \in 0 .. 15 : (lo \div 2 ^ b) % 2 = 1}
        \cup {b + 16 : b \in {c \in 0 .. 15 : (hi \div 2 ^ c) % 2 = 1}}

\* utils.add_int32_to_uint32 / add_uint32_to_uint32 with a small number
Plus(word, n) ==
    LET lo == BitsValue(word, 0, 15) + n
        hi == BitsValue(word, 16, 31) + lo \div 65536
    IN  Word(hi % 65536, lo % 65536)

\* CPUState
ARM_STATE == 0
THUMB_STATE == 1

ARM_PC_INCREMENT == 4
THUMB_PC_INCREMENT == 2

\* Registers.SP, LR, PC
SP == 13
LR == 14
PC == 15

\* ProgramStatusRegister: the bits of the fields
STATE_BIT == 5
FIQ_DISABLE_BIT == 6
IRQ_DISABLE_BIT == 7
OVERFLOW_BIT == 28
CARRY_BIT == 29
ZERO_BIT == 30
SIGN_BIT == 31

\* ShiftType
LSL == 0
LSR == 1
ASR == 2
ROR == 3

\* ExceptionVector
VECTOR_RESET == 0
VECTOR_UNDEFINED_INSTRUCTION == 4
VECTOR_SWI == 8
VECTOR_PREFETCH_ABORT == 12
VECTOR_DATA_ABORT == 16
VECTOR_ADDRESS_EXCEEDS_26_BITS == 20
VECTOR_IRQ == 24
VECTOR_FIQ == 28

Vectors == {VECTOR_RESET, VECTOR_UNDEFINED_INSTRUCTION, VECTOR_SWI,
            VECTOR_PREFETCH_ABORT, VECTOR_DATA_ABORT,
            VECTOR_ADDRESS_EXCEEDS_26_BITS, VECTOR_IRQ, VECTOR_FIQ}

\* Registers.__getitem__
Reg(r, n) ==
    CASE n = PC -> r.pc
      [] n = LR -> r.lr
      [] n = SP -> r.sp
      [] n \in BANKED_GPR_RANGE -> r.gpr[n]
      [] OTHER -> r.low[n]

\* Registers.__setitem__
SetReg(w, n, value) ==
    CASE n = PC -> [w EXCEPT !.regs.pc = value]
      [] n = LR -> [w EXCEPT !.regs.lr = value]
      [] n = SP -> [w EXCEPT !.regs.sp = value]
      [] n \in BANKED_GPR_RANGE -> [w EXCEPT !.regs.gpr[n] = value]
      [] OTHER -> [w EXCEPT !.regs.low[n] = value]

\* cpsr.reg: the mode field in bits 0 to 4, the other fields above
CpsrReg(r) == r.flags \cup Word(0, r.mode)

\* switch_mode(ProgramStatusRegister(value).mode) followed by
\* cpsr.reg = value, as the instructions that restore the CPSR do;
\* irq_disable is the bit as the scheduling part of the model reads it
WriteCpsr(w, value) ==
    [w EXCEPT !.regs = [SwitchMode(w.regs, BitsValue(value, 0, 4)) EXCEPT
                           !.flags = value \ (0 .. 4)],
              !.irq_disable = IRQ_DISABLE_BIT \in value]

\* CPU.advance_pc_arm / advance_pc_thumb
AdvancePc(w, increment) == [w EXCEPT !.regs.pc = Plus(@, increment)]

\* a flush that reads one instruction only and leaves the second slot of the
\* pipeline as it was
RefillOnce(w) ==
    LET arm == STATE_BIT \notin w.regs.flags
        increment == IF arm THEN ARM_PC_INCREMENT ELSE THUMB_PC_INCREMENT
        aligned == w.regs.pc \ (IF arm THEN {0, 1} ELSE {0})
    IN  FlushPipeline(
            [w EXCEPT !.regs.pipeline = <<aligned, w.regs.pipeline[2]>>,
                      !.regs.pc = Plus(aligned, increment),
                      !.regs.next_fetch_access = "SEQUENTIAL",
                      !.last.flushed = TRUE])

\* CPU.flush_pipeline
Refill(w) ==
    LET arm == STATE_BIT \notin w.regs.flags
        increment == IF arm THEN ARM_PC_INCREMENT ELSE THUMB_PC_INCREMENT
        aligned == w.regs.pc \ (IF arm THEN {0, 1} ELSE {0})
    IN  FlushPipeline(
            [w EXCEPT !.regs.pipeline = <<aligned, Plus(aligned, increment)>>,
                      !.regs.pc = Plus(aligned, 2 * increment),
                      !.regs.next_fetch_access = "SEQUENTIAL",
                      !.last.flushed = TRUE])

\* CPU.interrupt(vector); history: last.vector, and last.before, the
\* registers at the entry
Exception(w, vector) ==
    LET new_mode ==
            CASE vector = VECTOR_RESET -> SWI
              [] vector = VECTOR_UNDEFINED_INSTRUCTION -> UNDEFINED
              [] vector = VECTOR_SWI -> SWI
              [] vector = VECTOR_PREFETCH_ABORT -> ABORT
              [] vector = VECTOR_DATA_ABORT -> ABORT
              [] vector = VECTOR_ADDRESS_EXCEEDS_26_BITS -> SWI
              [] vector = VECTOR_IRQ -> IRQ
              [] vector = VECTOR_FIQ -> FIQ
        cpsr_reg == CpsrReg(w.regs)
        r1 == [SwitchMode(w.regs, new_mode) EXCEPT !.spsr = cpsr_reg]
        arm == STATE_BIT \notin r1.flags
        r2 == IF vector \in {VECTOR_SWI, VECTOR_UNDEFINED_INSTRUCTION}
              THEN [r1 EXCEPT !.lr = Plus(r1.pc, IF arm THEN -4 ELSE -2)]
              ELSE IF vector # VECTOR_RESET
              THEN [r1 EXCEPT !.lr = Plus(r1.pc, IF arm THEN -4 ELSE 0)]
              ELSE r1
        f1 == (r2.flags \ {STATE_BIT}) \cup {IRQ_DISABLE_BIT}
        f2 == IF vector \in {VECTOR_RESET, VECTOR_FIQ}
              THEN f1 \cup {FIQ_DISABLE_BIT} ELSE f1
    IN  Refill([w EXCEPT !.regs = [r2 EXCEPT !.flags = f2, !.pc = Word(0, vector)],
                         !.irq_disable = TRUE,
                         !.last.vector = vector,
                         !.last.before = w.regs])

\* a shifter for which an amount of 0 is always no shift, and which shifts
\* and rotates by 1 to 31 only
ComputeShiftPlain(value, shift_type, shift_amount, immediate, carry_flag) ==
    IF shift_amount = 0 \/ shift_amount > 31 THEN <<value, carry_flag>>
    ELSE
    CASE shift_type = LSL ->
             <<{b + shift_amount : b \in value} \cap (0 .. 31),
               (32 - shift_amount) \in value>>
      [] shift_type = LSR ->
             <<{b - shift_amount : b \in value} \cap (0 .. 31),
               (shift_amount - 1) \in value>>
      [] shift_type = ASR ->
             <<({b - shift_amount : b \in value} \cap (0 .. 31))
                   \cup (IF 31 \in value THEN (32 - shift_amount) .. 31 ELSE {}),
               (shift_amount - 1) \in value>>
      [] shift_type = ROR ->
             <<{((b + 32) - shift_amount) % 32 : b \in value},
               (shift_amount - 1) \in value>>

\* CPU.compute_shift: the result and the carry out
ComputeShift(value, shift_type, shift_amount, immediate, carry_flag) ==
    IF ~immediate /\ shift_amount = 0 THEN <<value, carry_flag>>
    ELSE
    CASE shift_type = LSL ->
             IF shift_amount = 0 THEN <<value, carry_flag>>
             ELSE IF shift_amount < 32
             THEN <<{b + shift_amount : b \in value} \cap (0 .. 31),
                    (32 - shift_amount) \in value>>
             ELSE IF shift_amount = 32 THEN <<{}, 0 \in value>>
             ELSE <<{}, FALSE>>
      [] shift_type = LSR ->
             IF shift_amount = 0 THEN <<{}, 31 \in value>>
             ELSE IF shift_amount < 32
             THEN <<{b - shift_amount : b \in value} \cap (0 .. 31),
                    (shift_amount - 1) \in value>>
             ELSE IF shift_amount = 32 THEN <<{}, 31 \in value>>
             ELSE <<{}, FALSE>>
      [] shift_type = ASR ->
             IF shift_amount = 0 \/ shift_amount >= 32
             THEN <<IF 31 \in value THEN 0 .. 31 ELSE {}, 31 \in value>>
             ELSE <<({b - shift_amount : b \in value} \cap (0 .. 31))
                        \cup (IF 31 \in value THEN (32 - shift_amount) .. 31 ELSE {}),
                    (shift_amount - 1) \in value>>
      [] shift_type = ROR ->
             LET amount == IF shift_amount > 32
                           THEN ((shift_amount - 1) % 32) + 1 ELSE shift_amount
             IN  IF amount = 0
                 THEN <<{b - 1 : b \in value \ {0}}
                            \cup (IF carry_flag THEN {31} ELSE {}),
                        0 \in value>>
                 ELSE <<{((b + 32) - (amount % 32)) % 32 : b \in value},
                        (amount - 1) \in value>>

\* the two implementations with the carry of the subtraction a borrow
\* (op1 < op2)
ArmAluImplBorrow(subtract, op1, op2) ==
    LET Xor(a, b) == (a \ b) \cup (b \ a)
        sign == IF subtract THEN -1 ELSE 1
        lo == BitsValue(op1, 0, 15) + sign * BitsValue(op2, 0, 15)
        hi == BitsValue(op1, 16, 31) + sign * BitsValue(op2, 16, 31) + lo \div 65536
        truncated_result == Word(hi % 65536, lo % 65536)
    IN  [result |-> truncated_result,
         sign_flag |-> 31 \in truncated_result,
         zero_flag |-> truncated_result = {},
         carry_flag |-> IF subtract THEN hi < 0 ELSE hi > 65535,
         overflow_flag |->
             IF subtract
             THEN 31 \in (Xor(op1, op2) \cap Xor(op1, truncated_result))
             ELSE 31 \in (((0 .. 31) \ Xor(op1, op2)) \cap Xor(op2, truncated_result))]

\* arm_alu_add_impl (subtract false) and arm_alu_sub_impl (subtract true):
\* the truncated result and the four flags
ArmAluImpl(subtract, op1, op2) ==
    LET Xor(a, b) == (a \ b) \cup (b \ a)
        sign == IF subtract THEN -1 ELSE 1
        lo == BitsValue(op1, 0, 15) + sign * BitsValue(op2, 0, 15)
        hi == BitsValue(op1, 16, 31) + sign * BitsValue(op2, 16, 31) + lo \div 65536
        truncated_result == Word(hi % 65536, lo % 65536)
    IN  [result |-> truncated_result,
         sign_flag |-> 31 \in truncated_result,
         zero_flag |-> truncated_result = {},
         carry_flag |->
             IF subtract
             THEN \/ BitsValue(op1, 16, 31) > BitsValue(op2, 16, 31)
                  \/ /\ BitsValue(op1, 16, 31) = BitsValue(op2, 16, 31)
                     /\ BitsValue(op1, 0, 15) >= BitsValue(op2, 0, 15)
             ELSE hi > 65535,
         overflow_flag |->
             IF subtract
             THEN 31 \in (Xor(op1, op2) \cap Xor(op1, truncated_result))
             ELSE 31 \in (((0 .. 31) \ Xor(op1, op2)) \cap Xor(op2, truncated_result))]

\* arm_alu, for the opcodes MOV, ADD, SUB, CMP and CMN; history: last.alu,
\* the operands as the handler read them and what it computed
ArmAlu(w, i) ==
    LET carry == CARRY_BIT \in w.regs.flags
        early_advance_pc == ~i.immediate /\ i.by_register
        w1 == IF early_advance_pc
              THEN Idle(AdvancePc(w, ARM_PC_INCREMENT), 1) ELSE w
        op1 == Reg(w1.regs, i.rn)
        shifted ==
            IF i.immediate
            THEN IF i.ror > 0
                 THEN <<{((b + 32) - i.ror) % 32 : b \in Word(0, i.imm)},
                        (i.ror - 1) \in Word(0, i.imm)>>
                 ELSE <<Word(0, i.imm), carry>>
            ELSE ComputeShift(Reg(w1.regs, i.rm), i.shift_type,
                              IF i.by_register
                              THEN BitsValue(Reg(w1.regs, i.rs), 0, 7)
                              ELSE i.shift_amount,
                              ~i.by_register, carry)
        op2 == shifted[1]
        shift_carry == shifted[2]
        compares == i.opcode \in {"CMP", "CMN"}
        arith == ArmAluImpl(i.opcode \in {"SUB", "CMP"}, op1, op2)
        result == IF i.opcode = "MOV" THEN op2 ELSE arith.result
        kept == w1.regs.flags \ {SIGN_BIT, ZERO_BIT, CARRY_BIT}
        flags ==
            IF ~(compares \/ (i.s /\ i.rd # PC)) THEN w1.regs.flags
            ELSE IF i.opcode = "MOV"
            THEN kept \cup (IF 31 \in result THEN {SIGN_BIT} ELSE {})
                      \cup (IF result = {} THEN {ZERO_BIT} ELSE {})
                      \cup (IF shift_carry THEN {CARRY_BIT} ELSE {})
            ELSE (kept \ {OVERFLOW_BIT})
                      \cup (IF arith.sign_flag THEN {SIGN_BIT} ELSE {})
                      \cup (IF arith.zero_flag THEN {ZERO_BIT} ELSE {})
                      \cup (IF arith.carry_flag THEN {CARRY_BIT} ELSE {})
                      \cup (IF arith.overflow_flag THEN {OVERFLOW_BIT} ELSE {})
        w2 == [w1 EXCEPT !.regs.flags = flags,
                         !.last.alu = [op1 |-> op1, op2 |-> op2,
                                       operand |-> IF i.immediate THEN Word(0, i.imm)
                                                   ELSE Reg(w1.regs, i.rm),
                                       carry |-> carry,
                                       shift_carry |-> shift_carry,
                                       result |-> result]]
        w3 == IF compares THEN w2 ELSE SetReg(w2, i.rd, result)
    IN  IF i.rd = PC
        THEN LET w4 == IF i.s THEN WriteCpsr(w3, w3.regs.spsr) ELSE w3
             IN  IF compares THEN w4 ELSE Refill(w4)
        ELSE IF ~early_advance_pc THEN AdvancePc(w3, ARM_PC_INCREMENT)
        ELSE w3

\* arm_mrs
ArmMrs(w, i) ==
    LET w1 == SetReg(w, i.rd, IF i.psr THEN w.regs.spsr ELSE CpsrReg(w.regs))
    IN  [AdvancePc(w1, ARM_PC_INCREMENT) EXCEPT
            !.regs.next_fetch_access = "SEQUENTIAL"]

\* Memory.read_32 of a word of work RAM, the address aligned
ReadWord(w, address) ==
    LET aligned == BitsValue(address \ {0, 1}, 0, 30)
    IN  Word(Read16(w, aligned + 2), Read16(w, aligned))

\* Memory.write_32, the address aligned
WriteWord(w, address, value) ==
    LET aligned == BitsValue(address \ {0, 1}, 0, 30)
    IN  Write16(Write16(Idle(w, ACCESS_TIME), aligned, BitsValue(value, 0, 15)),
                aligned + 2, BitsValue(value, 16, 31))

\* the loop with the write-back of a load done after the first register is
\* loaded instead of before
RECURSIVE TransferRegistersLate(_, _, _, _, _)
TransferRegistersLate(w, t, reg, base, first) ==
    IF reg > PC THEN w
    ELSE IF reg \notin t.reg_list THEN TransferRegistersLate(w, t, reg + 1, base, first)
    ELSE
        LET address == IF t.pre THEN Plus(base, 4) ELSE base
            write_back == first /\ t.write_back
            loaded == ReadWord(w, address)
            stored == Reg(w.regs, reg)
            wl == SetReg(Idle(w, ACCESS_TIME), reg, loaded)
            ws == WriteWord(w, address, stored)
            w1 == IF write_back
                  THEN SetReg(IF t.load THEN wl ELSE ws, t.base_reg, t.final_address)
                  ELSE IF t.load THEN wl ELSE ws
            w2 == [w1 EXCEPT !.last.moved =
                      Append(@, [reg |-> reg, address |-> address, load |-> t.load,
                                 value |-> IF t.load THEN loaded ELSE stored])]
        IN  TransferRegistersLate(w2, t, reg + 1,
                                  IF t.pre THEN address ELSE Plus(address, 4),
                                  first /\ ~write_back)

\* The loop over the register list of arm_block_data_transfer; the loops of
\* thumb_multiple_load_store are this loop with post-increment. history:
\* last.moved lists the words transferred
RECURSIVE TransferRegisters(_, _, _, _, _)
TransferRegisters(w, t, reg, base, first) ==
    IF reg > PC THEN w
    ELSE IF reg \notin t.reg_list THEN TransferRegisters(w, t, reg + 1, base, first)
    ELSE
        LET address == IF t.pre THEN Plus(base, 4) ELSE base
            write_back == first /\ t.write_back
            wa == IF write_back THEN SetReg(w, t.base_reg, t.final_address) ELSE w
            loaded == ReadWord(wa, address)
            stored == Reg(w.regs, reg)
            ws == WriteWord(w, address, stored)
            w1 == IF t.load
                  THEN SetReg(Idle(wa, ACCESS_TIME), reg, loaded)
                  ELSE IF write_back THEN SetReg(ws, t.base_reg, t.final_address)
                  ELSE ws
            w2 == [w1 EXCEPT !.last.moved =
                      Append(@, [reg |-> reg, address |-> address, load |-> t.load,
                                 value |-> IF t.load THEN loaded ELSE stored])]
        IN  TransferRegisters(w2, t, reg + 1,
                              IF t.pre THEN address ELSE Plus(address, 4),
                              first /\ ~write_back)

\* arm_block_data_transfer
ArmBlockDataTransfer(w, i) ==
    LET empty == i.reg_list = {}
        reg_list == IF empty THEN {PC} ELSE i.reg_list
        reg_list_count == IF empty THEN 16 ELSE Cardinality(i.reg_list)
        pc_in_reg_list == PC \in reg_list
        final_address == Plus(Reg(w.regs, i.base_reg),
                              IF i.up THEN reg_list_count * 4
                              ELSE reg_list_count * (-4))
        base == IF i.up THEN Reg(w.regs, i.base_reg) ELSE final_address
        pre_post_bit == IF i.up THEN i.pre ELSE ~i.pre
        original_mode == w.regs.mode
        w1 == IF i.s /\ ~(pc_in_reg_list /\ i.load)
              THEN [w EXCEPT !.regs = SwitchMode(@, USER)] ELSE w
        w2 == [AdvancePc(w1, ARM_PC_INCREMENT) EXCEPT
                  !.regs.next_fetch_access = "NON_SEQUENTIAL"]
        w3 == TransferRegisters(w2, [reg_list |-> reg_list, pre |-> pre_post_bit,
                                     load |-> i.load, write_back |-> i.write_back,
                                     base_reg |-> i.base_reg,
                                     final_address |-> final_address],
                                0, base, TRUE)
        w4 == IF pc_in_reg_list /\ i.load
              THEN Refill(IF i.s THEN WriteCpsr(w3, w3.regs.spsr) ELSE w3)
              ELSE IF i.s THEN [w3 EXCEPT !.regs = SwitchMode(@, original_mode)]
              ELSE w3
    IN  IF i.load THEN Idle(w4, 1) ELSE w4

\* thumb_multiple_load_store leaving the base register alone when the list
\* is empty
ThumbMultipleLoadStoreKeepsBase(w, i) ==
    LET address == Reg(w.regs, i.base_reg)
        w1 == [AdvancePc(w, THUMB_PC_INCREMENT) EXCEPT
                  !.regs.prefetch_access_type = "NON_SEQUENTIAL"]
        count == Cardinality(i.reg_list) * 4
        t == [reg_list |-> i.reg_list, pre |-> FALSE, load |-> i.load,
              write_back |-> ~i.load, base_reg |-> i.base_reg,
              final_address |-> Plus(address, count)]
        only_pc == [reg |-> PC, address |-> address, load |-> i.load,
                    value |-> IF i.load THEN ReadWord(w1, address) ELSE w1.regs.pc]
        w2 == IF i.load
              THEN Refill(SetReg(Idle(w1, ACCESS_TIME), PC, ReadWord(w1, address)))
              ELSE WriteWord(w1, address, w1.regs.pc)
    IN  IF i.reg_list = {}
        THEN [w2 EXCEPT !.last.moved = Append(@, only_pc)]
        ELSE IF i.load
        THEN TransferRegisters(
                 Idle(SetReg(w1, i.base_reg, Plus(address, count)), 1),
                 t, 0, address, TRUE)
        ELSE TransferRegisters(w1, t, 0, address, TRUE)

\* thumb_multiple_load_store
ThumbMultipleLoadStore(w, i) ==
    LET address == Reg(w.regs, i.base_reg)
        w1 == [AdvancePc(w, THUMB_PC_INCREMENT) EXCEPT
                  !.regs.prefetch_access_type = "NON_SEQUENTIAL"]
        count == Cardinality(i.reg_list) * 4
        t == [reg_list |-> i.reg_list, pre |-> FALSE, load |-> i.load,
              write_back |-> ~i.load, base_reg |-> i.base_reg,
              final_address |-> Plus(address, count)]
        only_pc == [reg |-> PC, address |-> address, load |-> i.load,
                    value |-> IF i.load THEN ReadWord(w1, address) ELSE w1.regs.pc]
        w2 == IF i.load
              THEN Refill(SetReg(Idle(w1, ACCESS_TIME), PC, ReadWord(w1, address)))
              ELSE WriteWord(w1, address, w1.regs.pc)
    IN  IF i.reg_list = {}
        THEN SetReg([w2 EXCEPT !.last.moved = Append(@, only_pc)], i.base_reg,
                    Plus(Reg(w2.regs, i.base_reg), 64))
        ELSE IF i.load
        THEN TransferRegisters(
                 Idle(SetReg(w1, i.base_reg, Plus(address, count)), 1),
                 t, 0, address, TRUE)
        ELSE TransferRegisters(w1, t, 0, address, TRUE)

\* GamePak.__init__ and read_8 / read_16 / read_32 (utils.array_read_16 /
\* array_read_32): the image is padded by ljust, whose fill byte is the space
\* 0x20, and the bytes are those at address & GAMEPAK_MASK (0x01FF_FFFF),
\* the lowest first
GamePakRead(rom, address, width) ==
    LET at == address % 33554432
        Byte(a) == IF a < Len(rom) THEN rom[a + 1] ELSE 32
    IN  IF width = 8 THEN Byte(at)
        ELSE IF width = 16 THEN Byte(at) + 256 * Byte(at + 1)
        ELSE Byte(at) + 256 * Byte(at + 1) + 65536 * Byte(at + 2)
                 + 16777216 * Byte(at + 3)

\* One pixel of a line rendered by PPU.hblank_start in video mode 3, without
\* force-blank and windowing: _init_layers, _render_background_bitmap with
\* paletted and small false, and _merge_layers, which writes the pixel to
\* the back buffer; the swap of hblank_end makes that buffer the front one.
\* A colour is the set of its 1 bits; TRANSPARENT_COLOUR, of ppu/constants.py,
\* is taken to be 0x8000
RenderBitmapPixel(display_bg2, backdrop_colour, vram_colour) ==
    LET transparent == {15}
        bg_scanline == IF display_bg2 THEN vram_colour ELSE transparent
    IN  IF display_bg2 /\ bg_scanline # transparent
        THEN bg_scanline ELSE backdrop_colour

\* One pixel of the object layers of a line, PPU._render_objects and
\* _render_object: objs lists the OAM entries by index, for each whether it
\* is enabled and has a pixel with a palette index other than 0 here
\* (opaque), whether its mode is WINDOW, its priority and the colour of the
\* pixel in PALRAM. The entries are drawn from the last to the first into
\* obj_scanline[priority], so that the write that stays in a buffer is the
\* one of the lowest index
RenderObjects(display_obj, objs) ==
    [priority \in 0 .. 3 |->
        LET drawn == {k \in DOMAIN objs : /\ objs[k].opaque
                                          /\ ~objs[k].window
                                          /\ objs[k].priority = priority}
        IN  IF display_obj /\ drawn # {}
            THEN objs[CHOOSE k \in drawn : \A j \in drawn : k <= j].colour
            ELSE {15}]

\* a merge that takes the backgrounds of a priority from BG0 to BG3
MergePixelAscending(backdrop_colour, bgs, display_obj, obj_scanline) ==
    LET merged == [n \in 0 .. 19 |->
                      LET priority == 3 - n \div 5
                          slot == n % 5
                      IN  IF slot < 4
                          THEN IF bgs[slot].displayed /\ bgs[slot].priority = priority
                               THEN bgs[slot].colour ELSE {15}
                          ELSE IF display_obj THEN obj_scanline[priority] ELSE {15}]
        written == {n \in 0 .. 19 : merged[n] # {15}}
    IN  IF written = {} THEN backdrop_colour
        ELSE merged[CHOOSE n \in written : \A m \in written : m <= n]

\* One pixel of PPU._merge_layers / _merge_layer without windowing: the
\* layers are merged in the order of the loops, priority 3 to 0, at each
\* priority BG3 to BG0 and then the object buffer of that priority; merged
\* lists them in that order, a layer that is not merged as transparent, and
\* the pixel is the last colour written over the backdrop
MergePixel(backdrop_colour, bgs, display_obj, obj_scanline) ==
    LET merged == [n \in 0 .. 19 |->
                      LET priority == 3 - n \div 5
                          slot == n % 5
                      IN  IF slot < 4
                          THEN IF bgs[3 - slot].displayed
                                  /\ bgs[3 - slot].priority = priority
                               THEN bgs[3 - slot].colour ELSE {15}
                          ELSE IF display_obj THEN obj_scanline[priority] ELSE {15}]
        written == {n \in 0 .. 19 : merged[n] # {15}}
    IN  IF written = {} THEN backdrop_colour
        ELSE merged[CHOOSE n \in written : \A m \in written : m <= n]

\* a branch whose target is taken from the address of the following
\* instruction instead of from R15
BranchFromNext(w, i) ==
    LET thumb == STATE_BIT \in w.regs.flags
        offset == IF thumb
                  THEN (IF 2 * i.imm >= 2048 THEN 2 * i.imm - 4096 ELSE 2 * i.imm)
                  ELSE (IF i.imm >= 8388608 THEN i.imm - 16777216 ELSE i.imm) * 4
        w1 == IF ~thumb /\ i.link
              THEN [w EXCEPT !.regs.lr = Plus(w.regs.pc, -4)] ELSE w
    IN  Refill([w1 EXCEPT !.regs.pc = Plus(w.regs.pipeline[1], offset)])

\* arm_branch and thumb_unconditional_branch: i.imm is the offset field of
\* the instruction, 24 bits counting words in ARM state (interpret_signed_24,
\* times 4) and 11 bits counting halfwords in THUMB state
\* (interpret_signed_12 of the field shifted left by one); i.link is bit 24
\* of the ARM instruction
Branch(w, i) ==
    LET thumb == STATE_BIT \in w.regs.flags
        offset == IF thumb
                  THEN (IF 2 * i.imm >= 2048 THEN 2 * i.imm - 4096 ELSE 2 * i.imm)
                  ELSE (IF i.imm >= 8388608 THEN i.imm - 16777216 ELSE i.imm) * 4
        w1 == IF ~thumb /\ i.link
              THEN [w EXCEPT !.regs.lr = Plus(w.regs.pc, -4)] ELSE w
    IN  Refill([w1 EXCEPT !.regs.pc = Plus(w.regs.pc, offset)])

\* a second half of the long branch that leaves the return address in LR
\* without the THUMB bit
ThumbLongBranchWithLinkEven(w, i) ==
    IF i.first
    THEN LET shifted == i.offset * 4096
             address_upper_bits ==
                 IF shifted >= 4194304 THEN shifted - 8388608 ELSE shifted
         IN  [AdvancePc([w EXCEPT !.regs.lr = Plus(w.regs.pc, address_upper_bits)],
                        THUMB_PC_INCREMENT) EXCEPT
                 !.regs.next_fetch_access = "SEQUENTIAL"]
    ELSE LET address_lower_bits == i.offset * 2
             pc == Plus(w.regs.pc, -2)
         IN  Refill([w EXCEPT !.regs.pc = Plus(w.regs.lr, address_lower_bits),
                              !.regs.lr = pc])

\* thumb_long_branch_with_link: i.first is the opcode with bit 11 clear,
\* i.offset the bits 0 to 10 of the instruction
ThumbLongBranchWithLink(w, i) ==
    IF i.first
    THEN LET shifted == i.offset * 4096
             address_upper_bits ==
                 IF shifted >= 4194304 THEN shifted - 8388608 ELSE shifted
         IN  [AdvancePc([w EXCEPT !.regs.lr = Plus(w.regs.pc, address_upper_bits)],
                        THUMB_PC_INCREMENT) EXCEPT
                 !.regs.next_fetch_access = "SEQUENTIAL"]
    ELSE LET address_lower_bits == i.offset * 2
             pc == Plus(w.regs.pc, -2)
         IN  Refill([w EXCEPT !.regs.pc = Plus(w.regs.lr, address_lower_bits),
                              !.regs.lr = pc \cup {0}])

\* CPU.step_arm / step_thumb after the fetch has been charged: the pipeline
\* moves on and the handler of the instruction runs; history: last.executing
\* is the word taken from the pipeline, last.decoded its fields, last.started
\* the R15 and last.before the registers that the handler finds
StepInstruction(w, i) ==
    LET r == w.regs
        arm == STATE_BIT \notin r.flags
        w1 == [w EXCEPT !.regs.pipeline =
                            <<r.pipeline[2], r.pc \ (IF arm THEN {0, 1} ELSE {0})>>,
                        !.last.executing = r.pipeline[1],
                        !.last.started = r.pc,
                        !.last.decoded = i,
                        !.last.before = r]
        met == CASE i.cond = "AL" -> TRUE
                 [] i.cond = "EQ" -> ZERO_BIT \in r.flags
                 [] i.cond = "NE" -> ZERO_BIT \notin r.flags
    IN  IF arm /\ ~met
        THEN [AdvancePc([w1 EXCEPT !.last.skipped = TRUE], ARM_PC_INCREMENT) EXCEPT
                 !.regs.next_fetch_access = "SEQUENTIAL"]
        ELSE CASE i.kind = "alu" -> ArmAlu(w1, i)
               [] i.kind = "mrs" -> ArmMrs(w1, i)
               [] i.kind = "bdt" -> ArmBlockDataTransfer(w1, i)
               [] i.kind = "thumb_bdt" -> ThumbMultipleLoadStore(w1, i)
               [] i.kind = "swi" -> Exception(w1, VECTOR_SWI)
               [] i.kind = "b" -> Branch(w1, i)
               [] i.kind = "thumb_bl" -> ThumbLongBranchWithLink(w1, i)

----------------------------------------------------------------------------
\* CPU.step_arm / step_thumb: the fetch and the instruction's handler
Execute(w, i) ==
    LET w1 == Idle([w EXCEPT !.last.instr = i.kind], i.fetch)
    IN  CASE i.kind = "strh"  -> IoWrite16(Idle(w1, ACCESS_TIME), i.address, i.value)
          [] i.kind = "strb"  -> IoWrite8(Idle(w1, ACCESS_TIME), i.address, i.value)
          [] i.kind = "cpsr"  -> [w1 EXCEPT !.irq_disable = i.flag]
          [] i.kind = "other" -> w1
          [] OTHER            -> StepInstruction(w1, i)

\* CPU.step
CpuStep(w, i) ==
    LET w0 == [w EXCEPT !.last.line = w.irq_line]
        w1 == IF w0.irq_line /\ ~w0.irq_disable THEN Interrupt(w0) ELSE w0
    IN  IF w1.power_down_mode = NONE
        THEN Execute(w1, i)
        ELSE IF w1.power_down_mode = HALT
        THEN IdleUntilNextEvent(w1)
        ELSE w1

\* PyBoyAdvance.__init__ with its default arguments: the PPU registers its
\* first callback, the CPU takes the RESET exception
Booted ==
    Reset(Schedule(Constructed, Event(0, "hblank_start", 0, CYCLES_HDRAW, 0), IMMEDIATELY))

CoreInit == Is(Booted)

CommitQueued == \E k \in 1 .. Len(events) : events[k].cb = "commit"

\* the steps followed: instructions up to CoreMaxCycles, a halted CPU through
\* MaxLines scanlines and up to the commit that is already queued
StepBound ==
    \/ cycles < CoreMaxCycles
    \/ power_down_mode = HALT /\ (vcount < MaxLines \/ CommitQueued)

\* PyBoyAdvance.step, no DMA channel pending
StepCpu(i) ==
    /\ StepBound
    /\ ~DmaActive(World)
    /\ power_down_mode # NONE => i.kind = "other" /\ i.fetch = 1
    /\ Install(ProcessEvents(CpuStep(Began("cpu", "", 0), i)))

\* PyBoyAdvance.step, a DMA channel pending
StepDma(n) ==
    /\ StepBound
    /\ DmaActive(World)
    /\ Install(ProcessEvents(PerformTransfers(Began("dma", "", 0), n)))

\* Keypad.press_key / release_key, called between two steps
KeyPress(key) ==
    /\ hist.keys < MaxKeys
    /\ key \in key_input
    /\ Install(PressKey([Began("key", "", 0) EXCEPT !.hist.keys = @ + 1], key))

KeyRelease(key) ==
    /\ hist.keys < MaxKeys
    /\ key \notin key_input
    /\ Install(ReleaseKey([Began("key", "", 0) EXCEPT !.hist.keys = @ + 1], key))

Step ==
    \/ \E i \in Instructions : StepCpu(i)
    \/ \E n \in 2 .. MaxDmaCycles : StepDma(n)

CoreNext ==
    \/ Step
    \/ KeyPress(BUTTON_A)
    \/ KeyRelease(BUTTON_A)

CoreSpec == CoreInit /\ [][CoreNext]_vars

\* A step that changes nothing: the CPU stopped, no IRQ to enter, and the
\* step before it already of this kind
Stopped ==
    /\ power_down_mode = STOP
    /\ ~DmaActive(World)
    /\ ~(irq_line /\ ~irq_disable)
    /\ last = [NoLast("cpu", "", 0) EXCEPT !.line = irq_line]

\* ENABLED <<Step>>_vars
StepEnabled == StepBound /\ ~Stopped

\* PyBoyAdvance.frame and run keep calling step: weak fairness of Step,
\* WF_vars(Step), written with the enabling condition spelled out
CoreFairSpec == CoreSpec /\ ([]<>~StepEnabled \/ []<><<Step>>_vars)

----------------------------------------------------------------------------
(* Claims about the step loop *)

\* C3: every PyBoyAdvance.step, whatever the power-down mode and whether or
\* not a DMA channel is pending, advances the cycle counter by at least one
\* cycle (so that frame() reaches its target).
C3_StepAdvances == [][last'.op \in {"cpu", "dma"} => cycles' > cycles]_vars

\* C4: when IME is written from 0 to 1 while IE & IF is nonzero, irq_line
\* does not rise earlier than 3 cycles after the write.
C4_Latency == last.roseAfterWrite = -1 \/ last.roseAfterWrite >= 3

\* C5: a write to IE, IF or IME leaves the live registers unchanged until a
\* commit fires at least WRITE_INTERRUPT_REGISTERS_DELAY cycles after the
\* write: no commit publishes a write younger than that.
C5_Staged == ~last.commitEarly

\* C6: a CPU step takes the IRQ exception exactly when irq_line is high and
\* CPSR.IRQ-disable is clear at its start; the entry sets IRQ-disable, and
\* the bit is cleared by nothing but an instruction that writes CPSR, so
\* that no further IRQ exception is taken while it is set.
C6_Step ==
    IF last'.op = "cpu"
    THEN /\ last'.irq <=> (irq_line /\ ~irq_disable)
         /\ (last'.irq /\ last'.instr # "cpsr") => irq_disable'
         /\ (irq_disable /\ ~irq_disable') => last'.instr = "cpsr"
    ELSE irq_disable' = irq_disable /\ ~last'.irq

C6_IrqEntry == [][C6_Step]_vars

C6_Witness ==
    /\ hist.irqTaken /\ last.op = "cpu" /\ ~last.irq /\ last.instr = "other"
    /\ last.line /\ irq_line /\ irq_disable

\* C7 (as stated): a CPU step made in HALT executes no instruction and
\* advances the cycle counter to the fire time of the earliest event (by 1 if
\* the heap is empty), never past it.
C7_HaltToEarliest ==
    [][(last'.op = "cpu" /\ power_down_mode = HALT) =>
           /\ last'.instr = "none"
           /\ cycles' = IF events # <<>> THEN events[1].time ELSE cycles + 1]_vars

\* C7 (amended): a CPU step made in HALT executes no instruction; after the
\* 2 cycles of the IRQ entry, if the step takes the exception, it advances
\* the cycle counter to the fire time of the earliest event when that lies
\* in the future and by 1 otherwise. HALT ends in exactly the steps in which
\* a commit finds IE & IF nonzero, whatever IME is, and a halted machine with
\* an enabled interrupt pending and its commit queued leaves HALT.
C7_HaltStep ==
    (power_down_mode = HALT /\ last'.op \in {"cpu", "dma"}) =>
        /\ last'.instr = "none"
        /\ last'.op = "cpu" =>
               LET entered == cycles + (IF last'.irq THEN 2 ELSE 0)
               IN  cycles' = IF events # <<>> /\ events[1].time > entered
                             THEN events[1].time ELSE entered + 1
        /\ (last'.op = "cpu" /\ ~last'.irq /\ events # <<>>) => cycles' = events[1].time
        /\ power_down_mode' = (IF last'.commitAvail THEN NONE ELSE HALT)

C7_Resumes ==
    (power_down_mode = HALT /\ pie \cap pif # {} /\ CommitQueued)
        ~> (power_down_mode = NONE)

C7_Halt == [][C7_HaltStep]_vars /\ C7_Resumes

C7_Witness ==
    /\ last.op = "cpu" /\ last.instr = "none" /\ ~last.irq /\ last.commitAvail
    /\ power_down_mode = NONE /\ ime = 0

----------------------------------------------------------------------------
(* gba.py: a program that programs the DMA channels. It stores to the       *)
(* channel registers and to VCOUNT, and between the stores executes         *)
(* instructions that touch no I/O register.                                 *)

MaxStores == 3   \* store instructions to I/O registers in a run
MaxRuns == 4     \* scheduler events a run waits for
MaxOver == 1     \* cycles by which a step can end after the earliest event

\* the bits of 159 (DISPLAY_HEIGHT - 1), the last visible line
LastVisibleLine == {0, 1, 2, 3, 4, 7}

DmaStoreValues ==
    [REG_DMA0CNT_H |-> {{}, {DMA_ENABLE_BIT},
                        {DMA_ENABLE_BIT, DMA_REPEAT_BIT},
                        {DMA_ENABLE_BIT, DMA_START_TIMING_BIT},
                        {DMA_ENABLE_BIT, DMA_START_TIMING_BIT + 1},
                        {DMA_ENABLE_BIT, DMA_START_TIMING_BIT + 1, DMA_REPEAT_BIT,
                         DMA_DST_ADJ_BIT, DMA_DST_ADJ_BIT + 1}},
     REG_DMA3CNT_H |-> {{DMA_ENABLE_BIT, DMA_START_TIMING_BIT + 1}},
     REG_DMA0CNT_L |-> {{0}},
     REG_DMA0DAD_L |-> {{2}},
     REG_VCOUNT    |-> {LastVisibleLine}]

Strh(a, v) ==
    [kind |-> "strh", address |-> a, value |-> v, flag |-> FALSE, fetch |-> 1]

DmaInstructions ==
    UNION {{Strh(a, v) : v \in DmaStoreValues[a]} : a \in DOMAIN DmaStoreValues}

\* PyBoyAdvance.step on a store instruction, no DMA channel pending
StoreStep(i) ==
    /\ hist.stores < MaxStores
    /\ ~DmaActive(World)
    /\ Install(ProcessEvents(CpuStep(
           [Began("cpu", i.address, 0) EXCEPT !.hist.stores = @ + 1], i)))

\* PyBoyAdvance.step, again and again, on instructions that touch no I/O
\* register, up to the first step at whose end an event is due; that step
\* ends over cycles after the event's time
RunToEvent(over) ==
    /\ hist.runs < MaxRuns
    /\ ~DmaActive(World)
    /\ events # <<>>
    /\ Install(ProcessEvents(Idle(
           [Began("cpu", "", over) EXCEPT !.hist.runs = @ + 1, !.last.instr = "other"],
           events[1].time + over - cycles)))

\* PyBoyAdvance.step, a DMA channel pending
TransferStep(n) ==
    /\ DmaActive(World)
    /\ Install(ProcessEvents(PerformTransfers(Began("dma", "", n), n)))

DmaNext ==
    \/ \E i \in DmaInstructions : StoreStep(i)
    \/ \E over \in 0 .. MaxOver : RunToEvent(over)
    \/ \E n \in 2 .. MaxDmaCycles : TransferStep(n)

DmaSpec == CoreInit /\ [][DmaNext]_vars

\* C11: an activation scheduled by an enable that a disable followed never
\* sets the channel's pending flag, and pending is false right after the
\* disable.
C11_Disowned == ~last.stale

\* C12: a step runs CPU instructions only when no DMA channel is pending; a
\* step that finds a channel pending serves the pending channels in the
\* order 0, 1, 2, 3 and perform_transfers returns with none pending; the
\* callbacks of a step all run after its instruction or its transfers, at
\* the cycle count the step ends with.
PendingChannels == {c \in 0 .. NUM_CHANNELS - 1 : dma[c].pending}

C12_Step ==
    last'.op \in {"cpu", "dma"} =>
        /\ last'.op = "dma" <=> PendingChannels # {}
        /\ last'.op = "dma" =>
               /\ last'.instr = "none"
               /\ Range(last'.served) = PendingChannels
               /\ \A j, k \in 1 .. Len(last'.served) :
                      j < k => last'.served[j] < last'.served[k]
               /\ last'.left = {}
        /\ last'.firedAt \subseteq {cycles'}

C12_DmaBeforeCpu == [][C12_Step]_vars

C12_Witness == last.op = "dma" /\ last.served = <<0, 3>>

\* C13: a store to a channel's control register that raises its enable bit
\* latches the programmed source, destination and count (a count of 0 as
\* the count mask + 1) and leaves an activation waiting 2 cycles ahead (in
\* the heap, or with delay 2 in the queue of its trigger), the channel not
\* yet pending; a store that leaves enable set latches nothing and adds no
\* activation.
ControlRegister == [c \in {0, 3} |-> IF c = 0 THEN "REG_DMA0CNT_H" ELSE "REG_DMA3CNT_H"]

Activations(heap, queues, c) ==
    Cardinality({k \in 1 .. Len(heap) : heap[k].cb = "activate" /\ heap[k].arg = c})
    + Cardinality({k \in 1 .. Len(queues[VBLANK]) : queues[VBLANK][k].arg = c})
    + Cardinality({k \in 1 .. Len(queues[HBLANK]) : queues[HBLANK][k].arg = c})

C13_Scheduled(c) ==
    LET inHeap == \E k \in 1 .. Len(events') :
                      /\ events'[k].cb = "activate" /\ events'[k].arg = c
                      /\ events'[k].time = cycles' + TRANSFER_DELAY
        inQueue(t) == \E k \in 1 .. Len(inactive_events'[t]) :
                          /\ inactive_events'[t][k].arg = c
                          /\ inactive_events'[t][k].delay = TRANSFER_DELAY
        timing == DmaStartTiming(dma'[c].reg)
    IN  CASE timing = START_IMMEDIATELY -> inHeap
          [] timing = START_VBLANK -> inQueue(VBLANK) \/ inHeap
          [] timing = START_HBLANK -> inQueue(HBLANK) \/ inHeap
          [] OTHER -> TRUE

C13_Step ==
    \A c \in DOMAIN ControlRegister :
        (last'.op = "cpu" /\ last'.arg = ControlRegister[c]) =>
            /\ (~DmaEnable(dma[c].reg) /\ DmaEnable(dma'[c].reg)) =>
                   /\ dma'[c].internal_src = dma[c].src
                   /\ dma'[c].internal_dst = dma[c].dst
                   /\ dma'[c].internal_count =
                          IF dma[c].count = 0 THEN COUNT_MASK[c + 1] + 1 ELSE dma[c].count
                   /\ C13_Scheduled(c)
                   /\ ~dma'[c].pending
            /\ (DmaEnable(dma[c].reg) /\ DmaEnable(dma'[c].reg)) =>
                   /\ dma'[c].internal_src = dma[c].internal_src
                   /\ dma'[c].internal_dst = dma[c].internal_dst
                   /\ dma'[c].internal_count = dma[c].internal_count
                   /\ Activations(events', inactive_events', c)
                          <= Activations(events, inactive_events, c)

C13_RisingEdge == [][C13_Step]_vars

\* C13 where no activation that a disable had followed sets pending
C13_ButDisowned == [][last'.stale \/ C13_Step]_vars

\* C14: when the transfer of a channel completes with the repeat bit set and
\* start timing VBLANK, HBLANK or SPECIAL, the channel stays enabled, its
\* activation waits again for the trigger (VBLANK, HBLANK) and the internal
\* destination is the programmed one if dst-adj is INCREMENT_RELOAD; in
\* every other case, repeat with IMMEDIATE timing included, the enable bit
\* is cleared.
C14_Completed(c) ==
    LET reg == dma[c].reg
    IN  IF DmaRepeat(reg) /\ DmaStartTiming(reg) # START_IMMEDIATELY
        THEN /\ DmaEnable(dma'[c].reg)
             /\ DmaStartTiming(reg) \in {START_VBLANK, START_HBLANK} =>
                    Activations(events', inactive_events', c) >= 1
             /\ DmaDstAdj(reg) = INCREMENT_RELOAD =>
                    dma'[c].internal_dst = dma[c].dst
        ELSE ~DmaEnable(dma'[c].reg)

C14_Step ==
    last'.op = "dma" => \A c \in Range(last'.served) : C14_Completed(c)

C14_Completion == [][C14_Step]_vars

----------------------------------------------------------------------------
(* memory/dma.py: DMAChannel.transfer on its own, for a pending channel 0   *)
(* whose registers and latches a program has set up to copy inside the      *)
(* followed work RAM                                                        *)

MaxUnits == 2    \* largest latched count of a transfer gone through

EWRAM_BASE == EWRAM_REGION * REGION_SIZE

\* the control registers of a pending channel: enable set, IMMEDIATE timing
CopyRegs ==
    {{DMA_ENABLE_BIT} \cup size \cup sadj \cup dadj \cup irq :
        size \in {{}, {DMA_SIZE_BIT}},
        sadj \in {{}, {DMA_SRC_ADJ_BIT}, {DMA_SRC_ADJ_BIT + 1}},
        dadj \in {{}, {DMA_DST_ADJ_BIT}, {DMA_DST_ADJ_BIT + 1},
                  {DMA_DST_ADJ_BIT, DMA_DST_ADJ_BIT + 1}},
        irq \in {{}, {DMA_IRQ_WHEN_DONE_BIT}}}

CopyAddresses == {EWRAM_BASE + b : b \in 0 .. 2 * MemHalfwords - 1}

\* work RAM holding a different value in every halfword
Pattern == [a \in 0 .. MemHalfwords - 1 |-> 257 * (a + 1)]

CopyInit ==
    \E reg \in CopyRegs, src \in CopyAddresses, dst \in CopyAddresses,
       count \in 1 .. MaxUnits :
        Is([Constructed EXCEPT
               !.mem = Pattern,
               !.dma[0] = [reg |-> reg, pending |-> TRUE, count |-> count,
                           src |-> src, dst |-> dst,
                           internal_src |-> src, internal_dst |-> dst,
                           internal_count |-> count]])

CopyNext == \E n \in 2 .. MaxDmaCycles : TransferStep(n)

CopySpec == CopyInit /\ [][CopyNext]_vars

\* the unit of the given size at an aligned address of a memory
UnitAt(m, address, size) ==
    IF size = 4
    THEN m[HalfwordAt(address)] + 65536 * m[HalfwordAt(address) + 1]
    ELSE m[HalfwordAt(address)]

C15_Inside(address, size) == Followed(address) /\ Followed(address + size - 2)

\* the units of the transfer that channel 0 is about to make
C15_Units ==
    LET ch   == dma[0]
        size == TransferSizeBytes(ch.reg)
        src0 == ch.internal_src - (ch.internal_src % size)
        dst0 == ch.internal_dst - (ch.internal_dst % size)
    IN  [i \in 1 .. ch.internal_count |->
            [src |-> src0 + (i - 1) * SrcStep(ch.reg),
             dst |-> dst0 + (i - 1) * DstStep(ch.reg),
             access |-> IF i = 1 THEN "NON_SEQUENTIAL" ELSE "SEQUENTIAL"]]

C15_BothIncrement ==
    /\ DmaSrcAdj(dma[0].reg) = INCREMENT
    /\ DmaDstAdj(dma[0].reg) \in {INCREMENT, INCREMENT_RELOAD}

C15_AllInside ==
    \A i \in DOMAIN C15_Units :
        /\ C15_Inside(C15_Units[i].src, TransferSizeBytes(dma[0].reg))
        /\ C15_Inside(C15_Units[i].dst, TransferSizeBytes(dma[0].reg))

C15_Disjoint ==
    \A i, j \in DOMAIN C15_Units :
        \/ C15_Units[i].src + TransferSizeBytes(dma[0].reg) <= C15_Units[j].dst
        \/ C15_Units[j].dst + TransferSizeBytes(dma[0].reg) <= C15_Units[i].src

\* what every transfer does: count units, unit i read at src + i * src_step
\* and written to dst + i * dst_step, the first NON_SEQUENTIAL and the
\* others SEQUENTIAL; pending cleared; the interrupt signalled iff
\* irq-on-done is set
C15_UnitByUnit ==
    /\ Len(last'.units) = dma[0].internal_count
    /\ \A i \in DOMAIN C15_Units :
           /\ last'.units[i].src = C15_Units[i].src
           /\ last'.units[i].dst = C15_Units[i].dst
           /\ last'.units[i].access = C15_Units[i].access
    /\ \A i \in DOMAIN C15_Units :
           LET size == TransferSizeBytes(dma[0].reg)
               u == last'.units[i]
           IN  (C15_Inside(u.dst, size)
                /\ \A j \in DOMAIN C15_Units : j > i => C15_Units[j].dst # u.dst)
                   => UnitAt(mem', u.dst, size) = u.value
    /\ ~dma'[0].pending
    /\ (DMA_0_BIT \in pif') <=> (DMA_IRQ_WHEN_DONE_BIT \in dma[0].reg)

\* C15 (as stated): ... with increment on both sides, memory at the
\* destination equals the source words after the transfer.
C15_CopiesStep ==
    (last'.op = "dma" /\ dma[0].pending) =>
        /\ C15_UnitByUnit
        /\ (C15_BothIncrement /\ C15_AllInside) =>
               \A i \in DOMAIN C15_Units :
                   UnitAt(mem', C15_Units[i].dst, TransferSizeBytes(dma[0].reg))
                       = UnitAt(mem', C15_Units[i].src, TransferSizeBytes(dma[0].reg))

C15_Copies == [][C15_CopiesStep]_vars

\* C15 (amended): a pending channel's transfer copies exactly the latched
\* count of units, unit i being read at aligned src + i * src_step and
\* written to aligned dst + i * dst_step, the first NON_SEQUENTIAL and the
\* others SEQUENTIAL; pending is false afterwards and the interrupt is
\* signalled iff irq-on-done is set; with increment on both sides and the
\* source range disjoint from the destination range, the destination holds
\* after the transfer the units the source held before it, and the source
\* is unchanged.
C15_DisjointStep ==
    (last'.op = "dma" /\ dma[0].pending) =>
        /\ C15_UnitByUnit
        /\ (C15_BothIncrement /\ C15_AllInside /\ C15_Disjoint) =>
               \A i \in DOMAIN C15_Units :
                   LET size == TransferSizeBytes(dma[0].reg)
                   IN  /\ UnitAt(mem', C15_Units[i].dst, size)
                              = UnitAt(mem, C15_Units[i].src, size)
                       /\ UnitAt(mem', C15_Units[i].src, size)
                              = UnitAt(mem, C15_Units[i].src, size)

C15_CopiesDisjoint == [][C15_DisjointStep]_vars

C15_Witness ==
    /\ last.op = "dma" /\ Len(last.units) = MaxUnits
    /\ last.units[1].access = "NON_SEQUENTIAL" /\ last.units[2].access = "SEQUENTIAL"
    /\ last.units[2].src = last.units[1].src + 4
    /\ last.units[1].dst = last.units[2].src + 4
    /\ last.units[2].dst = last.units[1].dst + 4
    /\ UnitAt(mem, last.units[2].dst, 4) = UnitAt(Pattern, last.units[2].src, 4)
    /\ DMA_0_BIT \in pif

\* C16: hblank_start fires the HBLANK trigger on the visible lines only, a
\* channel with HBLANK start timing is made pending only by an activation
\* stamped 2 cycles after the latest such trigger, and hblank_start signals
\* the HBLANK interrupt on every line when DISPSTAT enables it.
C16_Step ==
    /\ last'.hblankTrigger => last'.hblankLine < DISPLAY_HEIGHT
    /\ \A a \in last'.activated :
           DmaStartTiming(dma'[a[1]].reg) = START_HBLANK =>
               /\ hist'.hblankTriggerAt # -1
               /\ a[2] = hist'.hblankTriggerAt + TRANSFER_DELAY
    /\ last'.hblankLine # -1 =>
           (last'.hblankIrq <=> HBLANK_IRQ_BIT \in ppu.display_status)

C16_HblankDma == [][C16_Step]_vars

----------------------------------------------------------------------------
(* gba.py: a program that stores to DISPSTAT and VCOUNT, and bytes to IF,   *)
(* while the PPU goes through its scanlines                                 *)

\* the bits of 227 (DISPLAY_FULL_HEIGHT - 1), the last line
LastLine == {0, 1, 5, 6, 7}

PpuStoreValues ==
    [REG_DISPSTAT |-> {{VBLANK_STATUS_BIT}, {HBLANK_IRQ_BIT}},
     REG_VCOUNT   |-> {LastVisibleLine, LastLine, {8}}]

PpuInstructions ==
    UNION {{Strh(a, v) : v \in PpuStoreValues[a]} : a \in DOMAIN PpuStoreValues}
    \cup {[kind |-> "strb", address |-> a, value |-> v, flag |-> FALSE, fetch |-> 1] :
             a \in {"REG_IF", "REG_IF+1"}, v \in {{}, {HBLANK_BIT}}}

PpuNext ==
    \/ \E i \in PpuInstructions : StoreStep(i)
    \/ \E over \in 0 .. MaxOver : RunToEvent(over)

PpuSpec == CoreInit /\ [][PpuNext]_vars

\* C17: DISPSTAT flags VBLANK on the lines 160..227 and on no other; the
\* buffers are swapped at the transition to VCOUNT = 160 only; between two
\* wraps of VCOUNT to 0 hblank_start is entered 228 times and the buffers
\* are swapped once.
C17_Step ==
    /\ (VBLANK_STATUS_BIT \in ppu'.display_status) <=> (vcount' >= DISPLAY_HEIGHT)
    /\ hist'.swaps > hist.swaps => vcount' = DISPLAY_HEIGHT
    /\ last'.frameHblanks # -1 =>
           /\ last'.frameHblanks = DISPLAY_FULL_HEIGHT
           /\ last'.frameSwaps = 1

C17_FrameCounts == [][C17_Step]_vars

\* C18: consecutive calls of hblank_start are CYCLES_HDRAW + CYCLES_HBLANK
\* = 1232 cycles apart, whatever the steps in between.
C18_ScanlineCycles == last.gap = -1 \/ last.gap = CYCLES_HDRAW + CYCLES_HBLANK

\* C19: the rows rendered go to the back buffer, the front buffer is written
\* by no step that does not swap; frame_buffer_ptr designates the front
\* buffer; the buffer a swap makes the front buffer holds the rows 0..159
\* rendered since the swap before.
C19_Step ==
    /\ ppu'.front_buffer_ptr = ppu'.front_buffer
    /\ hist'.swaps = hist.swaps =>
           /\ ppu'.front_buffer = ppu.front_buffer
           /\ ppu'.written[ppu.front_buffer] = ppu.written[ppu.front_buffer]
    /\ hist'.swaps > hist.swaps =>
           /\ ppu'.front_buffer = ppu.back_buffer
           /\ last'.swapRows = 0 .. DISPLAY_HEIGHT - 1

C19_DoubleBuffer == [][C19_Step]_vars

----------------------------------------------------------------------------
(* Registers.switch_mode on its own: the registers and the banks start with *)
(* any contents of a small range, and the only operation is switch_mode, so *)
(* that nothing else mutates a register between two mode switches.          *)

MaxSwitches == 3

\* the values a visible SP, LR or SPSR starts with
RegValues == 0 .. 1

\* the contents the banks of SP, LR and SPSR start with
BankRows == {[b \in Banks |-> 2 + 2 * b + k] : k \in 0 .. 1}

\* the contents the visible R8..R12 and their two banked copies start with
GprRows == {[i \in BANKED_GPR_RANGE |-> k * i] : k \in 0 .. 1}

BankInit ==
    \E mode \in Modes, sp \in RegValues, lr \in RegValues, spsr \in RegValues,
       row \in BankRows, gpr \in GprRows :
        Is([Constructed EXCEPT
               !.regs = [NewRegisters EXCEPT
                         !.mode = mode, !.sp = sp, !.lr = lr, !.spsr = spsr,
                         !.gpr = gpr,
                         !.banked_old_gpr = [i \in BANKED_GPR_RANGE |-> 20 + i],
                         !.banked_fiq_gpr = [i \in BANKED_GPR_RANGE |-> 40 + i],
                         !.banked_sp = row,
                         !.banked_lr = [b \in Banks |-> 20 + row[b]],
                         !.banked_spsr = [b \in Banks |-> 40 + row[b]]]])

\* the visible registers, as a program reads them after a mode switch
Visible(r) ==
    [mode |-> r.mode, sp |-> r.sp, lr |-> r.lr, spsr |-> r.spsr, gpr |-> r.gpr]

\* CPU.switch_mode(new_mode); history: hist.switches lists the visible
\* registers after every switch
SwitchStep(new_mode) ==
    /\ Len(hist.switches) < MaxSwitches
    /\ LET w == Began("switch_mode", new_mode, 0)
           r == SwitchMode(w.regs, new_mode)
       IN  Install([w EXCEPT !.regs = r,
                             !.hist.switches = Append(@, Visible(r))])

BankNext == \E new_mode \in Modes : SwitchStep(new_mode)

BankSpec == BankInit /\ [][BankNext]_vars

\* the positions k of hist.switches where switch_mode(A), switch_mode(B),
\* switch_mode(A) were called in a row
C20_Trips ==
    {k \in 1 .. Len(hist.switches) - 2 :
        hist.switches[k].mode = hist.switches[k + 2].mode}

C20_SameBanked(k) ==
    /\ hist.switches[k + 2].sp = hist.switches[k].sp
    /\ hist.switches[k + 2].lr = hist.switches[k].lr
    /\ hist.switches[k + 2].spsr = hist.switches[k].spsr

C20_SameGpr(k) == hist.switches[k + 2].gpr = hist.switches[k].gpr

\* C20 as stated: after switch_mode(A), switch_mode(B), switch_mode(A) with
\* nothing else in between the visible SP, LR and SPSR are those seen after
\* the first switch_mode(A), for all modes A and B; R8..R12 are those seen
\* after the first switch_mode(A) if and only if none or both of A and B are
\* FIQ.
C20_RoundTrip ==
    \A k \in C20_Trips :
        /\ C20_SameBanked(k)
        /\ C20_SameGpr(k) <=>
               ((hist.switches[k].mode = FIQ) = (hist.switches[k + 1].mode = FIQ))

\* C20 amended: after switch_mode(A), switch_mode(B), switch_mode(A) with
\* nothing else in between the visible SP, LR, SPSR and R8..R12 are all those
\* seen after the first switch_mode(A), for all modes A and B, whether none,
\* one or both of A and B are FIQ.
C20_RoundTripAll ==
    \A k \in C20_Trips : C20_SameBanked(k) /\ C20_SameGpr(k)

\* a round trip into FIQ and back during which every banked register showed
\* another value
C20_Witness ==
    /\ Len(hist.switches) = MaxSwitches
    /\ LET k == MaxSwitches - 2
       IN  /\ k \in C20_Trips
           /\ hist.switches[k].mode = IRQ
           /\ hist.switches[k + 1].mode = FIQ
           /\ hist.switches[k + 1].sp # hist.switches[k].sp
           /\ hist.switches[k + 1].lr # hist.switches[k].lr
           /\ hist.switches[k + 1].spsr # hist.switches[k].spsr
           /\ hist.switches[k + 1].gpr # hist.switches[k].gpr
           /\ hist.switches[k + 2] = hist.switches[k]

----------------------------------------------------------------------------
(* The CPU executing a program: a few instructions of any kind followed, or *)
(* exceptions taken, from a state a running program can be in.              *)

MaxInstrs == 2    \* instructions executed and exceptions taken in a run

\* A running program: in ARM or THUMB state, in a privileged mode, the
\* pipeline filled from 0x0800_0200 in the GamePak, or from 0x0800_0304,
\* where the program has the branch to itself in which it ends, or from the
\* instruction before that one, R2 pointing into work RAM, the other
\* registers holding different values
CpuInit ==
    \E thumb \in BOOLEAN, zero \in BOOLEAN, mode \in {SYSTEM, IRQ}, start \in 0 .. 2 :
        LET increment == IF thumb THEN THUMB_PC_INCREMENT ELSE ARM_PC_INCREMENT
            at == CASE start = 0 -> Word(2048, 512)
                    [] start = 1 -> Word(2048, 772)
                    [] start = 2 -> Word(2048, 772 - increment)
        IN  Is([Booted EXCEPT
                   !.mem = Pattern,
                   !.regs = [NewRegisters EXCEPT
                       !.mode = mode,
                       !.flags = {IRQ_DISABLE_BIT}
                                     \cup (IF thumb THEN {STATE_BIT} ELSE {})
                                     \cup (IF zero THEN {ZERO_BIT} ELSE {}),
                       !.spsr = Word(0, SYSTEM),
                       !.low = [n \in 0 .. 7 |->
                                   IF n = 2 THEN Plus(Word(EWRAM_REGION * 256, 0), 8)
                                   ELSE Word(n + 1, 0)],
                       !.sp = Word(768, 32512),
                       !.lr = Word(2048, 64),
                       !.pc = Plus(at, 2 * increment),
                       !.pipeline = <<at, Plus(at, increment)>>,
                       !.next_fetch_access = "SEQUENTIAL"]])

\* the instructions followed: data processing with R15 as an operand or as
\* the destination, MRS, LDM and STM in the four addressing modes, SWI,
\* THUMB LDMIA and STMIA, B and BL forwards and to the instruction itself
\* (0xEAFFFFFE, 0xE7FE), and the two halves of the THUMB long branch
CpuInstructions ==
    {[kind |-> "alu", thumb |-> FALSE, fetch |-> 1, cond |-> cond, opcode |-> opcode,
      rd |-> rd, rn |-> PC, s |-> s, immediate |-> FALSE, imm |-> 0, ror |-> 0,
      rm |-> LR, by_register |-> by_register, shift_type |-> LSL,
      shift_amount |-> 0, rs |-> 1] :
        cond \in {"AL", "EQ"}, opcode \in {"MOV", "ADD"}, rd \in {0, PC},
        s \in BOOLEAN, by_register \in BOOLEAN}
    \cup
    {[kind |-> "alu", thumb |-> FALSE, fetch |-> 1, cond |-> "AL", opcode |-> "CMP",
      rd |-> rd, rn |-> PC, s |-> TRUE, immediate |-> FALSE, imm |-> 0, ror |-> 0,
      rm |-> LR, by_register |-> by_register, shift_type |-> LSL,
      shift_amount |-> 0, rs |-> 1] :
        rd \in {0, PC}, by_register \in BOOLEAN}
    \cup
    {[kind |-> "mrs", thumb |-> FALSE, fetch |-> 1, cond |-> "AL", rd |-> rd,
      psr |-> psr] : rd \in {0, PC}, psr \in BOOLEAN}
    \cup
    {[kind |-> "bdt", thumb |-> FALSE, fetch |-> 1, cond |-> "AL", pre |-> pre,
      up |-> up, s |-> FALSE, write_back |-> write_back, load |-> load,
      base_reg |-> 2, reg_list |-> reg_list] :
        pre \in BOOLEAN, up \in BOOLEAN, write_back \in BOOLEAN, load \in BOOLEAN,
        reg_list \in {{}, {0, 2}, {2, 3}, {3, PC}}}
    \cup
    {[kind |-> "thumb_bdt", thumb |-> TRUE, fetch |-> 1, cond |-> "AL",
      load |-> load, base_reg |-> 2, reg_list |-> reg_list] :
        load \in BOOLEAN, reg_list \in {{}, {0, 2}, {2, 3}}}
    \cup
    {[kind |-> "swi", thumb |-> thumb, fetch |-> 1, cond |-> "AL"] :
        thumb \in BOOLEAN}
    \cup
    {[kind |-> "b", thumb |-> FALSE, fetch |-> 1, cond |-> "AL", imm |-> imm,
      link |-> link] : imm \in {2, 16777214}, link \in BOOLEAN}
    \cup
    {[kind |-> "b", thumb |-> TRUE, fetch |-> 1, cond |-> "AL", imm |-> imm,
      link |-> FALSE] : imm \in {2, 2046}}
    \cup
    {[kind |-> "thumb_bl", thumb |-> TRUE, fetch |-> 1, cond |-> "AL",
      first |-> first, offset |-> offset] :
        first \in BOOLEAN, offset \in {0, 4, 2047}}

\* PyBoyAdvance.step with the CPU executing the instruction i, which is the
\* branch to itself when the pipeline hands over the word of 0x0800_0304;
\* restoring the CPSR from an SPSR that holds no mode raises in CPUMode(),
\* which ends the program
InstrStep(i) ==
    /\ hist.instrs < MaxInstrs
    /\ i.thumb = (STATE_BIT \in regs.flags)
    /\ regs.pipeline[1] = Word(2048, 772) =>
           /\ i.kind = "b"
           /\ ~i.link
           /\ i.imm = (IF i.thumb THEN 2046 ELSE 16777214)
    /\ (i.kind = "alu" /\ i.s /\ i.rd = PC /\ (i.cond = "EQ" => ZERO_BIT \in regs.flags))
           => BitsValue(regs.spsr, 0, 4) \in Modes
    /\ Install(ProcessEvents(CpuStep(
           [Began("cpu", "", 0) EXCEPT !.hist.instrs = @ + 1], i)))

\* CPU.interrupt(vector)
ExceptionStep(vector) ==
    /\ hist.instrs < MaxInstrs
    /\ Install(Exception(
           [Began("interrupt", "", 0) EXCEPT !.hist.instrs = @ + 1], vector))

CpuSpec ==
    CpuInit /\ [][(\E i \in CpuInstructions : InstrStep(i))
                      \/ (\E vector \in Vectors : ExceptionStep(vector))]_vars

\* the latest step executed an instruction, in ARM state from width 4 and in
\* THUMB state from width 2
C21_Ran == last.op = "cpu" /\ last.instr \in {"alu", "mrs", "bdt", "thumb_bdt", "swi"}

C21_Width ==
    IF STATE_BIT \in last.before.flags THEN THUMB_PC_INCREMENT ELSE ARM_PC_INCREMENT

\* the instruction of the latest step wrote R15
C21_WroteR15 ==
    \/ last.skipped = FALSE /\ last.instr = "swi"
    \/ /\ last.skipped = FALSE
       /\ last.instr \in {"alu", "mrs"}
       /\ last.decoded.rd = PC
       /\ ~(last.instr = "alu" /\ last.decoded.opcode \in {"CMP", "CMN"})
    \/ /\ last.instr \in {"bdt", "thumb_bdt"}
       /\ last.decoded.load
       /\ (PC \in last.decoded.reg_list \/ last.decoded.reg_list = {})

\* C21: when the handler of an instruction starts, R15 is the address of the
\* executing instruction + 8 in ARM state and + 4 in THUMB state; the operand
\* reads of an ARM data-processing instruction see + 12 exactly when the
\* shift is register-specified; and an instruction that does not write R15
\* leaves it advanced by exactly one instruction width.
C21_FetchedAhead ==
    C21_Ran =>
        /\ last.started = Plus(last.executing, 2 * C21_Width)
        /\ (last.instr = "alu" /\ ~last.skipped) =>
               last.alu.op1 = Plus(last.executing,
                                   IF last.decoded.by_register THEN 12 ELSE 8)
        /\ ~C21_WroteR15 => regs.pc = Plus(last.started, C21_Width)

\* C22: when an instruction that writes R15 as its destination ends, the
\* pipeline has been flushed: pipeline[0] and pipeline[1] hold the
\* instructions at the aligned new PC and at the following instruction
\* address, R15 is the aligned new PC plus two instruction widths, and
\* next_fetch_access is SEQUENTIAL.
C22_WriteFlushes ==
    (C21_Ran /\ C21_WroteR15) =>
        LET increment == IF STATE_BIT \in regs.flags
                         THEN THUMB_PC_INCREMENT ELSE ARM_PC_INCREMENT
        IN  /\ last.flushed
            /\ regs.pipeline[1] \cap {0} = {}
            /\ increment = ARM_PC_INCREMENT => regs.pipeline[1] \cap {1} = {}
            /\ regs.pipeline[2] = Plus(regs.pipeline[1], increment)
            /\ regs.pc = Plus(regs.pipeline[1], 2 * increment)
            /\ regs.next_fetch_access = "SEQUENTIAL"

\* the latest step entered an exception
C23_Taken == last.vector \in Vectors

\* the mode of each vector
C23_ModeOf ==
    CASE last.vector \in {VECTOR_RESET, VECTOR_SWI} -> SWI
      [] last.vector = VECTOR_UNDEFINED_INSTRUCTION -> UNDEFINED
      [] last.vector \in {VECTOR_PREFETCH_ABORT, VECTOR_DATA_ABORT} -> ABORT
      [] last.vector = VECTOR_IRQ -> IRQ
      [] last.vector = VECTOR_FIQ -> FIQ
      [] OTHER -> regs.mode

\* all of the entry but the link register
C23_Entered ==
    /\ regs.mode = C23_ModeOf
    /\ regs.spsr = CpsrReg(last.before)
    /\ STATE_BIT \notin regs.flags
    /\ IRQ_DISABLE_BIT \in regs.flags
    /\ irq_disable
    /\ FIQ_DISABLE_BIT \in regs.flags <=>
           (last.vector \in {VECTOR_RESET, VECTOR_FIQ}
               \/ FIQ_DISABLE_BIT \in last.before.flags)
    /\ last.flushed
    /\ regs.pipeline = <<Word(0, last.vector), Word(0, last.vector + 4)>>
    /\ regs.pc = Word(0, last.vector + 8)
    /\ regs.next_fetch_access = "SEQUENTIAL"

\* LR of the new mode is the return address
C23_Linked ==
    LET arm == STATE_BIT \notin last.before.flags
    IN  regs.lr = Plus(last.before.pc,
                       IF last.vector \in {VECTOR_SWI, VECTOR_UNDEFINED_INSTRUCTION}
                       THEN (IF arm THEN -4 ELSE -2)
                       ELSE (IF arm THEN -4 ELSE 0))

\* C23 as stated: an exception entry for vector v switches to the mode of v,
\* saves the CPSR in the SPSR of the new mode, sets LR of the new mode to
\* PC-4 (ARM) or PC-2 (THUMB) for SWI and UNDEF and to PC-4 (ARM) or PC
\* (THUMB) for every other vector, sets ARM state and IRQ-disable, sets
\* FIQ-disable only for RESET and FIQ, and continues at the vector with a
\* flushed pipeline.
C23_Entry == C23_Taken => (C23_Entered /\ C23_Linked)

\* C23 amended: as stated for every vector but RESET; RESET does all of the
\* entry except that it leaves LR of the SWI mode as it was.
C23_EntryButReset ==
    C23_Taken =>
        /\ C23_Entered
        /\ last.vector # VECTOR_RESET => C23_Linked
        /\ last.vector = VECTOR_RESET =>
               regs.lr = (IF last.before.mode = SWI THEN last.before.lr
                          ELSE last.before.banked_lr[BANK_SWI])

\* an IRQ taken in THUMB state from the SYSTEM mode
C23_Witness ==
    /\ last.vector = VECTOR_IRQ
    /\ STATE_BIT \in last.before.flags
    /\ last.before.mode = SYSTEM
    /\ regs.mode = IRQ
    /\ regs.lr = last.before.pc

\* the latest step executed LDM or STM, or THUMB LDMIA or STMIA
C29_Block == C21_Ran /\ last.instr \in {"bdt", "thumb_bdt"}

\* the base register before and after the instruction
C29_BaseBefore == Reg(last.before, last.decoded.base_reg)

C29_BaseAfter == Reg(regs, last.decoded.base_reg)

\* the transfer is that of R15 alone
C29_OnlyR15 == Len(last.moved) = 1 /\ last.moved[1].reg = PC

\* C29 as stated: an ARM LDM/STM or THUMB LDMIA/STMIA whose register list is
\* empty transfers exactly one word, R15, and advances the base register by
\* 0x40.
C29_EmptyList ==
    (C29_Block /\ last.decoded.reg_list = {}) =>
        (C29_OnlyR15 /\ C29_BaseAfter = Plus(C29_BaseBefore, 64))

\* C29 amended: the transfer is that of R15 alone; THUMB LDMIA/STMIA advance
\* the base register by 0x40; ARM LDM/STM with the write-back bit move it by
\* 0x40 in the direction of the transfer (up + 0x40, down - 0x40), and
\* without the write-back bit leave it as it was.
C29_EmptyListAsEncoded ==
    (C29_Block /\ last.decoded.reg_list = {}) =>
        /\ C29_OnlyR15
        /\ C29_BaseAfter =
               Plus(C29_BaseBefore,
                    IF last.instr = "thumb_bdt" THEN 64
                    ELSE IF ~last.decoded.write_back THEN 0
                    ELSE IF last.decoded.up THEN 64 ELSE -64)

\* STMDB with the write-back bit and an empty list has stored R15, the
\* address of the instruction + 12, and moved the base down by 0x40
C29_Witness ==
    /\ C29_Block /\ last.instr = "bdt" /\ last.decoded.reg_list = {}
    /\ ~last.decoded.load /\ last.decoded.write_back /\ ~last.decoded.up
    /\ last.decoded.pre
    /\ last.moved[1].value = Plus(last.executing, 12)
    /\ C29_BaseAfter = Plus(C29_BaseBefore, -64)

\* the latest step executed a block transfer with write-back of a list that
\* is not empty
C30_WritesBack ==
    /\ C29_Block
    /\ last.decoded.reg_list # {}
    /\ (last.instr = "thumb_bdt" \/ last.decoded.write_back)

\* the address written back
C30_Final ==
    LET count == Cardinality(last.decoded.reg_list)
    IN  Plus(C29_BaseBefore,
             IF last.instr = "thumb_bdt" \/ last.decoded.up
             THEN 4 * count ELSE (-4) * count)

\* the transfers of the base register
C30_OfBase == {k \in 1 .. Len(last.moved) : last.moved[k].reg = last.decoded.base_reg}

\* C30: LDM with write-back writes the final address to the base register
\* before the first register is loaded, so a base register in the list ends
\* with its loaded value; STM with write-back writes the base back after the
\* first register is stored, so a base register in the list is stored with
\* its original value iff it is the lowest-numbered register of the list,
\* and with the written-back value otherwise. A base register that is not in
\* the list ends with the final address.
C30_WriteBackOrder ==
    C30_WritesBack =>
        LET d == last.decoded
            lowest == \A reg \in d.reg_list : d.base_reg <= reg
        IN  /\ d.base_reg \in d.reg_list => Cardinality(C30_OfBase) = 1
            /\ (d.load /\ d.base_reg \in d.reg_list) =>
                   \A k \in C30_OfBase : C29_BaseAfter = last.moved[k].value
            /\ (~d.load /\ d.base_reg \in d.reg_list) =>
                   \A k \in C30_OfBase :
                       /\ last.moved[k].value =
                              (IF lowest THEN C29_BaseBefore ELSE C30_Final)
                       /\ C29_BaseAfter = C30_Final
            /\ d.base_reg \notin d.reg_list => C29_BaseAfter = C30_Final

\* STMIB of R0 and the base R2 with write-back: R2, not the lowest of the
\* list, has been stored with the written-back address
C30_Witness ==
    /\ C30_WritesBack /\ last.instr = "bdt" /\ ~last.decoded.load
    /\ last.decoded.reg_list = {0, 2} /\ last.decoded.up /\ last.decoded.pre
    /\ last.moved[2].reg = 2
    /\ last.moved[2].value = Plus(C29_BaseBefore, 8)
    /\ C29_BaseAfter = Plus(C29_BaseBefore, 8)

----------------------------------------------------------------------------
(* The parts on their own: one call of the keypad, one read of the GamePak, *)
(* one pixel of a bitmap line and one data-processing instruction, from the *)
(* states a program can have brought them to.                               *)

MaxParts == 1     \* calls made in a run of the parts

\* R0 and R1 hold operands at the edges of the 32-bit range, R4, R5 and R6
\* shift amounts whose low bytes are 0, 32 and 33; some keys are held and
\* KEYCNT has been written
PartInit ==
    \E carry \in BOOLEAN,
       op1 \in {Word(0, 0), Word(0, 1), Word(32767, 65535), Word(32768, 0),
                Word(65535, 65535)},
       op2 \in {Word(0, 0), Word(0, 1), Word(32767, 65535), Word(32768, 0),
                Word(65535, 65535)},
       held \in {{}, {0}, {0, 1}},
       control \in {{0, 1, KEY_IRQ_ENABLE_BIT},
                    {0, 1, KEY_IRQ_ENABLE_BIT, KEY_IRQ_IF_ALL_BIT},
                    {0, 1, KEY_IRQ_IF_ALL_BIT},
                    {KEY_IRQ_ENABLE_BIT, KEY_IRQ_IF_ALL_BIT}} :
        Is([Booted EXCEPT
               !.key_input = Keys \ held,
               !.key_control = control,
               !.regs = [NewRegisters EXCEPT
                   !.flags = {IRQ_DISABLE_BIT}
                                 \cup (IF carry THEN {CARRY_BIT} ELSE {}),
                   !.low = [n \in 0 .. 7 |->
                               CASE n = 0 -> op1
                                 [] n = 1 -> op2
                                 [] n = 4 -> Word(0, 256)
                                 [] n = 5 -> Word(0, 256 + 32)
                                 [] n = 6 -> Word(0, 33)
                                 [] OTHER -> {}],
                   !.pc = Word(2048, 264),
                   !.pipeline = <<Word(2048, 256), Word(2048, 260)>>,
                   !.next_fetch_access = "SEQUENTIAL"]])

\* Keypad.press_key and release_key of any key, GamePak.read_8 / read_16 /
\* read_32 of an image of two or of five bytes, the rendering of a pixel of
\* a bitmap line, and PyBoyAdvance.step executing ADDS, SUBS, CMP, CMN or a
\* MOVS with a shifted operand; history: last.held, the keys held after the
\* call, last.pending, the interrupts pending before it, last.read and
\* last.pixel
PartNext ==
    /\ hist.instrs < MaxParts
    /\ \/ \E key \in {0, 1, KEY_SELECT_MAX_BIT} :
              Install(PressKey(
                  [Began("press", key, 0) EXCEPT
                      !.hist.instrs = @ + 1,
                      !.last.held = (Keys \ key_input) \cup {key},
                      !.last.pending = pif], key))
       \/ \E key \in {0, 1, KEY_SELECT_MAX_BIT} :
              Install(ReleaseKey(
                  [Began("release", key, 0) EXCEPT
                      !.hist.instrs = @ + 1,
                      !.last.held = (Keys \ key_input) \ {key},
                      !.last.pending = pif], key))
       \/ \E rom \in {<<1, 2>>, <<1, 2, 3, 4, 5>>},
             address \in {134217728, 134217729, 134217730, 134217732,
                          134217736, 167772160, 201326591},
             width \in {8, 16, 32} :
              /\ address % (width \div 8) = 0
              /\ Install([Began("rom", "", 0) EXCEPT
                             !.hist.instrs = @ + 1,
                             !.last.read = [rom |-> rom, address |-> address,
                                            width |-> width,
                                            value |-> GamePakRead(rom, address, width)]])
       \/ \E colour \in {Word(0, 31), Word(0, 32767), Word(0, 32768), Word(0, 65535)} :
              Install([Began("bitmap", "", 0) EXCEPT
                          !.hist.instrs = @ + 1,
                          !.last.pixel = [vram |-> colour,
                                          front |-> RenderBitmapPixel(TRUE, {}, colour)]])
       \/ \E opcode \in {"ADD", "SUB", "CMP", "CMN"} :
              InstrStep([kind |-> "alu", thumb |-> FALSE, fetch |-> 1, cond |-> "AL",
                         opcode |-> opcode, rd |-> 2, rn |-> 0, s |-> TRUE,
                         immediate |-> FALSE, imm |-> 0, ror |-> 0, rm |-> 1,
                         by_register |-> FALSE, shift_type |-> LSL,
                         shift_amount |-> 0, rs |-> 4])
       \/ \E shift_type \in {LSL, LSR, ASR, ROR}, rs \in {0, 4, 5, 6} :
              InstrStep([kind |-> "alu", thumb |-> FALSE, fetch |-> 1, cond |-> "AL",
                         opcode |-> "MOV", rd |-> 2, rn |-> 0, s |-> TRUE,
                         immediate |-> FALSE, imm |-> 0, ror |-> 0, rm |-> 1,
                         by_register |-> rs # 0, shift_type |-> shift_type,
                         shift_amount |-> 0, rs |-> rs])

PartSpec == PartInit /\ [][PartNext]_vars

\* C24: with video mode 3, BG2 displayed, no force-blank and no windowing, a
\* 16-bit value V written to VRAM for the pixel (x, y) is, after the line is
\* rendered and the buffers are swapped, in the front buffer at that pixel
\* masked to 15 bits.
C24_RoundTrip ==
    last.op = "bitmap" => last.pixel.front = last.pixel.vram \ {15}

\* the keys selected in KEYCNT and the condition on them
C25_Condition ==
    LET key_select == key_control \cap (0 .. 9)
    IN  IF KEY_IRQ_IF_ALL_BIT \in key_control
        THEN key_select \subseteq last.held
        ELSE key_select \cap last.held # {}

\* C25: KEYINPUT is active-low and stays within 10 bits, the bit of a key
\* being 0 exactly while the key is pressed; on every press_key and
\* release_key the KEYPAD interrupt is signalled iff the IRQ-enable bit of
\* KEYCNT is set and the condition holds on the selected keys: all of them
\* pressed in the AND mode (bit 15 set), at least one of them otherwise. A
\* call that signals adds KEYPAD to the pending flags, a call that does not
\* leaves them as they were.
C25_Keypad ==
    /\ key_input \subseteq 0 .. 9
    /\ last.op \in {"press", "release"} =>
           /\ key_input = (0 .. 9) \ last.held
           /\ (KEY_IRQ_ENABLE_BIT \in key_control /\ C25_Condition) =>
                  pif = last.pending \cup {KEYPAD_BIT}
           /\ ~(KEY_IRQ_ENABLE_BIT \in key_control /\ C25_Condition) =>
                  pif = last.pending

\* in the AND mode the release of one of the two selected keys, both held
\* before, signals nothing
C25_Witness ==
    /\ last.op = "release" /\ last.arg = 1
    /\ key_control = {0, 1, KEY_IRQ_ENABLE_BIT, KEY_IRQ_IF_ALL_BIT}
    /\ last.held = {0}
    /\ key_input = (0 .. 9) \ {0}
    /\ KEYPAD_BIT \notin pif

\* the byte of the image padded with zeros at an offset
C26_Padded(offset) ==
    IF offset < Len(last.read.rom) THEN last.read.rom[offset + 1] ELSE 0

\* C26: a GamePak image shorter than 32 MiB is padded with zeros: every read
\* of a ROM address at or beyond the image length returns 0, and every ROM
\* read returns the byte(s) at address AND 0x01FF_FFFF of the padded image.
C26_ZeroPadded ==
    last.op = "rom" =>
        LET at == last.read.address % 33554432
            count == last.read.width \div 8
        IN  /\ at >= Len(last.read.rom) => last.read.value = 0
            /\ \A k \in 0 .. count - 1 :
                   (last.read.value \div 2 ^ (8 * k)) % 256 = C26_Padded(at + k)

\* the latest step executed MOVS with a shifted operand
C27_Shifted ==
    /\ C21_Ran /\ last.instr = "alu" /\ ~last.skipped
    /\ last.decoded.opcode = "MOV" /\ ~last.decoded.immediate
    /\ last.decoded.s /\ last.decoded.rd # PC

\* C27: for immediate shifts, LSR #0 gives the result and carry of LSR by 32
\* (0 and bit 31 of the value), ASR #0 those of ASR by 32 (all bits and the
\* carry equal to bit 31), and ROR #0 is RRX (result = (value >> 1) | (C <<
\* 31), carry = bit 0 of the value); LSL by more than 32 yields 0 with carry
\* 0; a register-specified shift amount of 0 leaves value and carry
\* unchanged.
C27_EdgeCases ==
    C27_Shifted =>
        LET d == last.decoded
            value == last.alu.operand
            amount == IF d.by_register
                      THEN BitsValue(Reg(last.before, d.rs), 0, 7) ELSE d.shift_amount
            result == last.alu.result
            carry == last.alu.shift_carry
        IN  /\ (~d.by_register /\ amount = 0 /\ d.shift_type = LSR) =>
                   (result = {} /\ carry = (31 \in value))
            /\ (d.by_register /\ amount = 32 /\ d.shift_type = LSR) =>
                   (result = {} /\ carry = (31 \in value))
            /\ (amount \in {0, 32} /\ d.shift_type = ASR /\ (d.by_register => amount = 32)) =>
                   /\ result = (IF 31 \in value THEN 0 .. 31 ELSE {})
                   /\ carry = (31 \in value)
            /\ (~d.by_register /\ amount = 0 /\ d.shift_type = ROR) =>
                   /\ result = {b - 1 : b \in value \ {0}}
                                   \cup (IF last.alu.carry THEN {31} ELSE {})
                   /\ carry = (0 \in value)
            /\ (amount > 32 /\ d.shift_type = LSL) => (result = {} /\ ~carry)
            /\ (d.by_register /\ amount = 0) =>
                   (result = value /\ carry = last.alu.carry)
            /\ Reg(regs, d.rd) = result
            /\ (CARRY_BIT \in regs.flags) = carry

\* MOVS R2, R1, RRX with R1 = 1 and the carry set: R2 = 0x8000_0000, carry
\* and sign set, zero clear
C27_Witness ==
    /\ C27_Shifted /\ ~last.decoded.by_register /\ last.decoded.shift_type = ROR
    /\ last.alu.operand = {0} /\ last.alu.carry
    /\ Reg(regs, 2) = {31}
    /\ {CARRY_BIT, SIGN_BIT} \subseteq regs.flags
    /\ ZERO_BIT \notin regs.flags

\* the latest step executed ADDS, SUBS, CMP or CMN
C28_Arith ==
    /\ C21_Ran /\ last.instr = "alu" /\ ~last.skipped
    /\ last.decoded.opcode \in {"ADD", "SUB", "CMP", "CMN"}
    /\ last.decoded.s /\ last.decoded.rd # PC

\* C28: with the S bit set and Rd not R15, SUB/CMP set carry = (op1 >= op2)
\* and overflow = bit 31 of ((op1 XOR op2) AND (op1 XOR result)); ADD/CMN set
\* carry = (op1 + op2 > 0xFFFF_FFFF) and overflow = bit 31 of (NOT(op1 XOR
\* op2) AND (op2 XOR result)); the result is the sum or difference modulo
\* 2^32, N is its bit 31 and Z is (result = 0).
C28_Flags ==
    C28_Arith =>
        LET op1 == last.alu.op1
            op2 == last.alu.op2
            result == last.alu.result
            subtract == last.decoded.opcode \in {"SUB", "CMP"}
            a_hi == BitsValue(op1, 16, 31)
            a_lo == BitsValue(op1, 0, 15)
            b_hi == BitsValue(op2, 16, 31)
            b_lo == BitsValue(op2, 0, 15)
            sum_lo == a_lo + b_lo
            sum_hi == a_hi + b_hi + sum_lo \div 65536
            not_less == a_hi > b_hi \/ (a_hi = b_hi /\ a_lo >= b_lo)
            dif_lo == IF a_lo >= b_lo THEN a_lo - b_lo ELSE a_lo + 65536 - b_lo
            borrow == IF a_lo >= b_lo THEN 0 ELSE 1
            dif_hi == (a_hi + 65536 - b_hi - borrow) % 65536
            Differ(x, y) == (31 \in x) # (31 \in y)
        IN  /\ result = (IF subtract THEN Word(dif_hi, dif_lo)
                         ELSE Word(sum_hi % 65536, sum_lo % 65536))
            /\ (CARRY_BIT \in regs.flags) =
                   (IF subtract THEN not_less ELSE sum_hi > 65535)
            /\ (OVERFLOW_BIT \in regs.flags) =
                   (IF subtract THEN Differ(op1, op2) /\ Differ(op1, result)
                    ELSE ~Differ(op1, op2) /\ Differ(op2, result))
            /\ (SIGN_BIT \in regs.flags) = (31 \in result)
            /\ (ZERO_BIT \in regs.flags) = (result = {})
            /\ Reg(regs, last.decoded.rd) =
                   (IF last.decoded.opcode \in {"ADD", "SUB"} THEN result
                    ELSE Reg(last.before, last.decoded.rd))

\* ADDS R2, R0, R1 with R0 = 0x7FFF_FFFF and R1 = 1: R2 = 0x8000_0000 and
\* the flags are N and V
C28_Witness ==
    /\ C28_Arith /\ last.decoded.opcode = "ADD"
    /\ last.alu.op1 = Word(32767, 65535) /\ last.alu.op2 = {0}
    /\ Reg(regs, 2) = {31}
    /\ regs.flags \cap {SIGN_BIT, ZERO_BIT, CARRY_BIT, OVERFLOW_BIT}
           = {SIGN_BIT, OVERFLOW_BIT}

----------------------------------------------------------------------------
(* Branches under CpuSpec.                                                  *)

\* the latest step executed the second opcode of a THUMB long branch
C31_Second ==
    /\ last.op = "cpu"
    /\ last.instr = "thumb_bl"
    /\ ~last.decoded.first

\* scenario S4: the second opcode, with low bits 4, executed at 0x0800_0202
\* with R15 two instructions ahead, and found in LR what the first opcode
\* with high bits 0 leaves there when it executes at 0x0800_0200
C31_Scenario ==
    /\ C31_Second
    /\ last.executing = Word(2048, 514)
    /\ last.started = Word(2048, 518)
    /\ last.decoded.offset = 4
    /\ last.before.lr = Word(2048, 516)

\* in general, as stated: the second opcode leaves the address of the
\* instruction after the pair, with bit 0 set, in LR
C31_Halves ==
    C31_Second => regs.lr = Plus(last.executing, THUMB_PC_INCREMENT) \cup {0}

\* in general, from R15: the first opcode leaves R15 plus the sign-extended
\* high bits in LR and goes on with the next instruction, the second opcode
\* leaves R15 - 2 with bit 0 set in LR and refills the pipeline from the old
\* LR plus the low bits
C31_HalvesFromR15 ==
    /\ C31_Second =>
           /\ regs.lr = Plus(last.started, -2) \cup {0}
           /\ regs.pipeline[1] =
                  Plus(last.before.lr, 2 * last.decoded.offset) \ {0}
    /\ (last.op = "cpu" /\ last.instr = "thumb_bl" /\ last.decoded.first) =>
           /\ regs.lr = Plus(last.started,
                             IF last.decoded.offset >= 1024
                             THEN (last.decoded.offset - 2048) * 4096
                             ELSE last.decoded.offset * 4096)
           /\ regs.pc = Plus(last.started, THUMB_PC_INCREMENT)

C34_Idle == regs.pipeline[1] = Word(2048, 772)

\* a step that executes the idle instruction without taking an exception
\* leaves R0..R14, the CPSR and R15 as they were and the idle instruction in
\* pipeline[0]
C34_Step ==
    (C34_Idle /\ last'.op = "cpu" /\ last'.vector = -1) =>
        /\ regs'.low = regs.low
        /\ regs'.gpr = regs.gpr
        /\ regs'.sp = regs.sp
        /\ regs'.lr = regs.lr
        /\ CpsrReg(regs') = CpsrReg(regs)
        /\ regs'.pc = regs.pc
        /\ regs'.pipeline[1] = regs.pipeline[1]

\* C34: once the branch to itself (ARM 0xEAFFFFFE, THUMB 0xE7FE) is in
\* pipeline[0], every later step that takes no interrupt leaves R0..R14, the
\* CPSR and R15 unchanged and pipeline[0] again holds that instruction.
C34_FixedPoint == [][C34_Step]_vars

\* the latest step executed a block transfer (ARM LDM/STM, THUMB
\* LDMIA/STMIA) that did not reload R15
C39_Transferred ==
    /\ last.op = "cpu"
    /\ last.instr \in {"bdt", "thumb_bdt"}
    /\ ~last.skipped
    /\ ~C21_WroteR15

\* C39: after every load/store instruction that does not reload R15,
\* next_fetch_access is NON_SEQUENTIAL, so that the following instruction
\* fetch is charged as a non-sequential access.
C39_NonSequential ==
    C39_Transferred => regs.next_fetch_access = "NON_SEQUENTIAL"

----------------------------------------------------------------------------
(* One pixel of a visible line with objects and backgrounds over it: the    *)
(* PPU renders the line once, from any contents of the first two OAM        *)
(* entries and of the buffers of BG0 and BG1, without windowing.            *)

\* PPU.hblank_start on a visible line, at one pixel: _init_layers, the
\* backgrounds and the objects unless force-blank is set, _merge_layers;
\* PALRAM[0] is 0x001F, the object of OAM index k has the colour 0x0101 + k
\* and the background n the colour 0x0400 + n; history: last.pixel
LineSpec ==
    /\ Is(Booted)
    /\ [][/\ hist.instrs < MaxParts
          /\ \E force_blank \in BOOLEAN, display_obj \in BOOLEAN,
                seen \in [0 .. 1 -> BOOLEAN \X BOOLEAN \X {0, 1, 3}],
                drawn \in [0 .. 1 -> BOOLEAN \X BOOLEAN \X {0, 1}] :
                 LET objs == [k \in 0 .. 1 |->
                                 [opaque |-> seen[k][1], window |-> seen[k][2],
                                  priority |-> seen[k][3],
                                  colour |-> Word(0, 257 + k)]]
                     bgs == [n \in 0 .. 3 |->
                                IF n > 1
                                THEN [displayed |-> FALSE, priority |-> 0,
                                      colour |-> {15}]
                                ELSE [displayed |-> drawn[n][1],
                                      priority |-> drawn[n][3],
                                      colour |-> IF drawn[n][1] /\ drawn[n][2]
                                                    /\ ~force_blank
                                                 THEN Word(0, 1024 + n)
                                                 ELSE {15}]]
                     backdrop_colour == IF force_blank THEN {} ELSE Word(0, 31)
                     obj_scanline == IF force_blank THEN [q \in 0 .. 3 |-> {15}]
                                     ELSE RenderObjects(display_obj, objs)
                 IN  Install([Began("line", "", 0) EXCEPT
                         !.hist.instrs = @ + 1,
                         !.last.pixel =
                             [force_blank |-> force_blank,
                              display_obj |-> display_obj,
                              objs |-> objs, bgs |-> bgs,
                              backdrop_colour |-> backdrop_colour,
                              obj_scanline |-> obj_scanline,
                              colour |-> MergePixel(backdrop_colour, bgs,
                                                    display_obj, obj_scanline)]])]_vars

\* the objects that are displayed at the pixel of the line rendered: not in
\* WINDOW mode, with a pixel that is not transparent
C32_Covering ==
    {k \in 0 .. 1 : last.pixel.objs[k].opaque /\ ~last.pixel.objs[k].window}

\* the colour that the merge takes from the object buffers: the one of the
\* buffer that is merged last among those that hold a colour
C32_Shown ==
    LET held == {q \in 0 .. 3 : last.pixel.obj_scanline[q] # {15}}
    IN  last.pixel.obj_scanline[CHOOSE q \in held : \A o \in held : q <= o]

\* C32: on a rendered line, at a pixel covered by non-transparent pixels of
\* two or more displayed objects that are not in WINDOW mode, the colour
\* shown for the object layer is that of the object with the lowest OAM
\* index, whatever the priority fields of the objects.
C32_LowestIndex ==
    (/\ last.op = "line"
     /\ ~last.pixel.force_blank
     /\ last.pixel.display_obj
     /\ Cardinality(C32_Covering) >= 2) =>
        C32_Shown = last.pixel.objs[CHOOSE k \in C32_Covering :
                                        \A j \in C32_Covering : k <= j].colour

\* the layers that hold a colour at the pixel, each with its place in the
\* order of the claim: a lower priority first, at the same priority the
\* objects before BG0 before BG1 before BG2 before BG3
C33_Layers ==
    {[rank |-> 5 * last.pixel.bgs[n].priority + 1 + n,
      colour |-> last.pixel.bgs[n].colour] :
         n \in {m \in 0 .. 3 : /\ last.pixel.bgs[m].displayed
                               /\ last.pixel.bgs[m].colour # {15}}}
    \cup
    {[rank |-> 5 * q, colour |-> last.pixel.obj_scanline[q]] :
         q \in {o \in 0 .. 3 : /\ last.pixel.display_obj
                               /\ last.pixel.obj_scanline[o] # {15}}}

\* C33: without windowing the composited pixel is the colour of the enabled
\* layer that is not transparent and has the numerically lowest priority; at
\* the same priority the objects beat every background and a background
\* beats those of a higher index; when every enabled layer is transparent
\* the pixel is the backdrop PALRAM[0], and it is 0 under force-blank.
C33_Composited ==
    last.op = "line" =>
        /\ last.pixel.force_blank => last.pixel.colour = {}
        /\ (~last.pixel.force_blank /\ C33_Layers = {}) =>
               last.pixel.colour = Word(0, 31)
        /\ \A layer \in C33_Layers :
               (\A other \in C33_Layers : layer.rank <= other.rank) =>
                   last.pixel.colour = layer.colour

\* an object, BG0 and BG1 all hold a colour at the pixel, the two
\* backgrounds and the buffer of the object have priority 1, and the pixel
\* shows the object
C33_Witness ==
    /\ last.op = "line"
    /\ ~last.pixel.force_blank
    /\ last.pixel.display_obj
    /\ Cardinality(C33_Layers) = 3
    /\ last.pixel.bgs[0].priority = 1
    /\ last.pixel.bgs[1].priority = 1
    /\ last.pixel.obj_scanline[1] # {15}
    /\ last.pixel.colour = last.pixel.obj_scanline[1]

----------------------------------------------------------------------------
(* The interrupt controller and the PPU under CoreSpec and PpuSpec.         *)

\* no callback of the interrupt controller is outstanding in the scheduler
C35_Quiet ==
    \A k \in 1 .. Len(events) :
        events[k].cancelled \/ events[k].cb \notin {"commit", "update_irq"}

\* C35: in every reachable state in which no event of the interrupt
\* controller (register commit or IRQ-line update) is outstanding, irq_line
\* is set exactly when live IE AND live IF is nonzero and live IME is 1.
C35_LineConsistent ==
    C35_Quiet => (irq_line <=> (ie \cap iflags # {} /\ ime = 1))

\* C36: VCOUNT lies in 0..227 in every reachable state, whatever the program
\* stores, stores to the I/O address of VCOUNT included.
C36_VcountRange == vcount \in 0 .. DISPLAY_FULL_HEIGHT - 1

\* the callbacks of the PPU that are outstanding in the scheduler
C40_Timers ==
    {k \in 1 .. Len(events) :
        ~events[k].cancelled /\ events[k].cb \in {"hblank_start", "hblank_end"}}

\* C37: in every reachable state the VBLANK flag of DISPSTAT is set exactly
\* when VCOUNT >= 160, and the HBLANK flag exactly between an hblank_start
\* and the following hblank_end, that is while hblank_end is the callback
\* outstanding, whatever the program stores, stores to DISPSTAT included.
C37_StatusFlags ==
    /\ VBLANK_STATUS_BIT \in ppu.display_status <=> vcount >= DISPLAY_HEIGHT
    /\ HBLANK_STATUS_BIT \in ppu.display_status <=>
           \E k \in C40_Timers : events[k].cb = "hblank_end"

\* the callback of the PPU that is outstanding
C40_Pending == events[CHOOSE k \in C40_Timers : TRUE].cb

C40_Other(cb) == IF cb = "hblank_start" THEN "hblank_end" ELSE "hblank_start"

\* the callbacks that a step runs: the first is the one that was
\* outstanding, each of the others differs from the one before it, and the
\* one outstanding after the step differs from the last
C40_Step ==
    /\ \A k \in 1 .. Len(last'.calls) :
           last'.calls[k] = IF k = 1 THEN C40_Pending
                            ELSE C40_Other(last'.calls[k - 1])
    /\ C40_Pending' = IF last'.calls = <<>> THEN C40_Pending
                      ELSE C40_Other(last'.calls[Len(last'.calls)])

\* C40: between steps exactly one timing event of the PPU (hblank_start or
\* hblank_end) is outstanding in the scheduler, and it is due later than
\* the current cycle; the callbacks hblank_start and hblank_end alternate
\* strictly, beginning with hblank_start.
C40_Alternation ==
    /\ C40_Pending = "hblank_start"
    /\ [](/\ Cardinality(C40_Timers) = 1
          /\ \A k \in C40_Timers : events[k].time > cycles)
    /\ [][C40_Step]_vars

\* two scanlines have gone by: hblank_start, hblank_end, hblank_start and
\* now hblank_end have run, with stores of the program in between
C40_Witness ==
    /\ last.calls = <<"hblank_end">>
    /\ vcount = 2
    /\ hist.stores > 0
    /\ C40_Pending = "hblank_start"

\* C38: an 8-bit write to one byte of IF acknowledges flags of that byte
\* only: every flag held in the other byte of IF is pending after the write
\* as it was before.
C38_OtherByteKept ==
    (last.op = "cpu" /\ last.instr = "strb") =>
        last.acked \subseteq (IF last.arg = "REG_IF+1" THEN 8 .. 15 ELSE 0 .. 7)

====
